---- MODULE Spec2Model ----
(***************************************************************************)
(* Model of the runtime environment access and security core of           *)
(* next-env-guard.                                                         *)
(*                                                                         *)
(* Conventions.  A JavaScript string is a sequence of one-character        *)
(* strings, so that the regular expressions and prefix tests of the source *)
(* are computed character by character.  A JavaScript object is a sequence *)
(* of [key, value] entries in creation order with distinct keys; the order *)
(* in which Object.keys and for...in visit it is computed by ObjKeys.      *)
(* The value undefined is UNDEFINED.  A call ends in Return(v) or          *)
(* Throw(e); the last call and its outcome are kept in the variable        *)
(* result.                                                                 *)
(***************************************************************************)
EXTENDS Integers, Sequences, FiniteSets, TLC

\* ------------------------------------------------------------------------
\* Strings
\* ------------------------------------------------------------------------
\* undefined and null: one-element sequences that no string equals.
UNDEFINED == <<"undefined">>
NULL == <<"null">>

LowerCase == {"a","b","c","d","e","f","g","h","i","j","k","l","m",
              "n","o","p","q","r","s","t","u","v","w","x","y","z"}
UpperCase == {"A","B","C","D","E","F","G","H","I","J","K","L","M",
              "N","O","P","Q","R","S","T","U","V","W","X","Y","Z"}
DigitSeq == <<"0","1","2","3","4","5","6","7","8","9">>
DigitChars == {DigitSeq[i] : i \in 1..10}

StartsWith(s, prefix) ==
    /\ Len(s) >= Len(prefix)
    /\ SubSeq(s, 1, Len(prefix)) = prefix

NEXT_PUBLIC == <<"N","E","X","T","_","P","U","B","L","I","C","_">>

\* The names used as inputs.
K_DB == <<"D","B">>
K_KEY == <<"K","E","Y">>
K_API == <<"A","P","I">>
K_PUB_A == NEXT_PUBLIC \o <<"A">>
K_PUB_B == NEXT_PUBLIC \o <<"B">>
K_CTOR == <<"c","o","n","s","t","r","u","c","t","o","r">>
K_PROTO == <<"_","_","p","r","o","t","o","_","_">>
K_PROTOTYPE == <<"p","r","o","t","o","t","y","p","e">>
K_SPACE == <<"a"," ","b">>
K_ONE == <<"1">>
K_TWO == <<"2">>
K_HYPHEN == <<"m","y","-","v">>

\* ------------------------------------------------------------------------
\* Objects: own keys in the order of Object.keys / for...in
\* ------------------------------------------------------------------------
DigitVal(c) == (CHOOSE i \in 1..10 : DigitSeq[i] = c) - 1

RECURSIVE NumVal(_)
NumVal(s) == IF s = <<>> THEN 0
             ELSE 10 * NumVal(SubSeq(s, 1, Len(s) - 1)) + DigitVal(s[Len(s)])

\* A canonical array index: the own keys an engine lists first, ascending.
\* Every canonical numeral of up to nine digits is below 2^32 - 1; longer
\* numerals are not among the inputs.
IsArrayIndex(s) ==
    /\ Len(s) >= 1
    /\ Len(s) <= 9
    /\ \A i \in 1..Len(s) : s[i] \in DigitChars
    /\ (Len(s) > 1 => s[1] # "0")

RECURSIVE SortIndexKeys(_)
SortIndexKeys(ks) ==
    IF ks = {} THEN <<>>
    ELSE LET m == CHOOSE k \in ks : \A o \in ks : NumVal(k) <= NumVal(o)
         IN  <<m>> \o SortIndexKeys(ks \ {m})

ObjDeclKeys(o) == [i \in 1..Len(o) |-> o[i].key]

ObjKeys(o) ==
    LET decl == ObjDeclKeys(o)
        idx  == {decl[i] : i \in {j \in 1..Len(o) : IsArrayIndex(decl[j])}}
    IN  SortIndexKeys(idx) \o SelectSeq(decl, LAMBDA k : ~IsArrayIndex(k))

ObjHas(o, k) == \E i \in 1..Len(o) : o[i].key = k

ObjGet(o, k) ==
    IF ObjHas(o, k)
    THEN o[CHOOSE i \in 1..Len(o) : o[i].key = k].value
    ELSE UNDEFINED

ObjSet(o, k, v) ==
    IF ObjHas(o, k)
    THEN [i \in 1..Len(o) |-> IF o[i].key = k THEN [key |-> k, value |-> v] ELSE o[i]]
    ELSE Append(o, [key |-> k, value |-> v])

Entry(k, v) == [key |-> k, value |-> v]

\* A value that may be null: None, or Some(v).
None == <<>>
Some(v) == <<v>>
IsNone(o) == Len(o) = 0

\* ------------------------------------------------------------------------
\* Outcomes of a call
\* ------------------------------------------------------------------------
Return(v) == [kind |-> "return", value |-> v]
Throw(e) == [kind |-> "throw", value |-> e]

NoCall == [op |-> "none", arg |-> UNDEFINED, kind |-> "none", value |-> UNDEFINED]

Called(op, arg, outcome) ==
    [op |-> op, arg |-> arg, kind |-> outcome.kind, value |-> outcome.value]

\* A returned environment object is recorded under the field values.
ReturnedObject(outcome) ==
    IF outcome.kind = "return" THEN Return([values |-> outcome.value]) ELSE outcome

\* ------------------------------------------------------------------------
\* Errors
\* ------------------------------------------------------------------------
\* An error: its class, its message, the variableName given to its
\* constructor (EnvSecurityError, EnvClientPrefixError) and its errors list
\* (EnvValidationError).  A message is a text: the literal pieces of the
\* template are kept whole, the interpolated values character by character.
Error(type, message, variableName, errors) ==
    [type |-> type, message |-> message, variableName |-> variableName,
     errors |-> errors]

PlainError(message) == Error("Error", message, UNDEFINED, <<>>)

TypeError(message) == Error("TypeError", message, UNDEFINED, <<>>)

EnvSecurityError(variableName) ==
    Error("EnvSecurityError",
          <<"Security Error: Attempted to access server-side environment variable \"">>
             \o variableName \o <<"\" on the client.">>,
          variableName, <<>>)

EnvClientPrefixError(variableName) ==
    Error("EnvClientPrefixError",
          <<"Invalid client variable name: \"">> \o variableName \o <<"\"">>,
          variableName, <<>>)

EnvNotInitializedError ==
    Error("EnvNotInitializedError", <<"Environment variables not initialized.">>,
          UNDEFINED, <<>>)

EnvValidationError(errors) ==
    Error("EnvValidationError", <<"Invalid environment variables">>, UNDEFINED, errors)

\* ------------------------------------------------------------------------
\* Key sanitizer
\* ------------------------------------------------------------------------
MatchesKeyPattern(key) ==
    /\ Len(key) >= 1
    /\ key[1] \in LowerCase \cup UpperCase \cup {"_"}
    /\ \A i \in 2..Len(key) :
          key[i] \in LowerCase \cup UpperCase \cup DigitChars \cup {"_", "-"}

IsReservedKey(key) == key \in {K_PROTO, K_CTOR, K_PROTOTYPE}

\* Variant: the names of the prototype chain are let through.
sanitizeEnvKey_NoReservedTest(key) ==
    IF ~MatchesKeyPattern(key)
    THEN Throw(PlainError(<<"Invalid environment variable key: \"">> \o key
                          \o <<"\". Keys must start with a letter or underscore.">>))
    ELSE Return(key)

sanitizeEnvKey(key) ==
    IF ~MatchesKeyPattern(key)
    THEN Throw(PlainError(<<"Invalid environment variable key: \"">> \o key
                          \o <<"\". Keys must start with a letter or underscore.">>))
    ELSE IF IsReservedKey(key)
    THEN Throw(PlainError(<<"Invalid environment variable key: \"">> \o key
                          \o <<"\". This key is not allowed.">>))
    ELSE Return(key)

\* ------------------------------------------------------------------------
\* RateLimiter
\* ------------------------------------------------------------------------
MapGet(m, k) == IF k \in DOMAIN m THEN m[k] ELSE <<>>
MapSet(m, k, v) == [x \in (DOMAIN m) \cup {k} |-> IF x = k THEN v ELSE m[x]]
MapDelete(m, k) == [x \in (DOMAIN m) \ {k} |-> m[x]]
EmptyMap == [x \in {} |-> <<>>]

\* A text occurs inside another one.
Mentions(text, name) ==
    \E i \in 1..(Len(text) - Len(name) + 1) :
        SubSeq(text, i, i + Len(name) - 1) = name

\* Variant: an attempt exactly one window old still counts.
ValidAttempts_Inclusive(list, t, w) == SelectSeq(list, LAMBDA time : t - time <= w)

\* attempts.filter((time) => now - time < this.windowMs)
ValidAttempts(list, t, w) == SelectSeq(list, LAMBDA time : t - time < w)

\* Variant: the bound is tested with > instead of >=.
IsAllowedResult_OffByOne(att, key, t, w, n) ==
    ~(Len(ValidAttempts(MapGet(att, key), t, w)) > n)

\* validAttempts.length >= this.maxAttempts ? false : true
IsAllowedResult(att, key, t, w, n) ==
    ~(Len(ValidAttempts(MapGet(att, key), t, w)) >= n)

IsAllowedAttempts(att, key, t, w, n) ==
    IF IsAllowedResult(att, key, t, w, n)
    THEN MapSet(att, key, Append(ValidAttempts(MapGet(att, key), t, w), t))
    ELSE att

ClearAttempts(att, key) == MapDelete(att, key)

\* Variant: a key is dropped as soon as one of its attempts is old.
CleanupOldEntries_DropsStale(att, t, w) ==
    [k \in {x \in DOMAIN att : ValidAttempts(att[x], t, w) = att[x] /\ att[x] # <<>>}
        |-> att[k]]

\* ManagedRateLimiter.cleanupOldEntries
CleanupOldEntries(att, t, w) ==
    [k \in {x \in DOMAIN att : ValidAttempts(att[x], t, w) # <<>>}
        |-> ValidAttempts(att[k], t, w)]

\* const validationRateLimiter = new ManagedRateLimiter(60000, 100)
ValidationWindowMs == 60000
ValidationMaxAttempts == 100

\* ------------------------------------------------------------------------
\* createSecureEnvProxy: the handler of the guarded object
\* ------------------------------------------------------------------------
S_ENV == <<"e","n","v","-">>
S_ENV_GLOBAL == <<"e","n","v","-","g","l","o","b","a","l">>
S_INVALID_KEY == <<"Invalid key: ">>

\* namespace ? ... : ... -- undefined and the empty string are falsy
Truthy(str) == str # UNDEFINED /\ str # NULL /\ str # <<>>

\* const rateLimitKey = namespace ? `env-${namespace}` : 'env-global'
RateLimitKey(ns) == IF Truthy(ns) THEN S_ENV \o ns ELSE S_ENV_GLOBAL

\* `${rateLimitKey}:${prop}`
AccessKey(ns, prop) == RateLimitKey(ns) \o <<":">> \o prop

RateLimitError(prop) ==
    PlainError(<<"Rate limit exceeded for environment variable access: ">> \o prop
               \o <<". Too many validation attempts.">>)

\* Names every object literal inherits from Object.prototype (those among
\* the inputs): they satisfy `prop in target` without being own keys.
InheritedKeys == {K_CTOR, K_PROTO}
InObject(o, k) == ObjHas(o, k) \/ k \in InheritedKeys

\* Variant: the rate limiter answers before the sanitizer.
SecureGetOutcome_LimiterFirst(target, sKeys, ns, att, t, prop) ==
    IF ~IsAllowedResult(att, AccessKey(ns, prop), t,
                        ValidationWindowMs, ValidationMaxAttempts)
    THEN Throw(RateLimitError(prop))
    ELSE IF sanitizeEnvKey(prop).kind = "throw"
    THEN Throw(EnvSecurityError(S_INVALID_KEY \o prop))
    ELSE IF prop \in sKeys
    THEN Throw(EnvSecurityError(prop))
    ELSE Return(ObjGet(target, prop))

\* Variant: the server-key test is missing.
SecureGetOutcome_NoServerTest(target, sKeys, ns, att, t, prop) ==
    IF sanitizeEnvKey(prop).kind = "throw"
    THEN Throw(EnvSecurityError(S_INVALID_KEY \o prop))
    ELSE IF ~IsAllowedResult(att, AccessKey(ns, prop), t,
                             ValidationWindowMs, ValidationMaxAttempts)
    THEN Throw(RateLimitError(prop))
    ELSE Return(ObjGet(target, prop))

\* Variant: a server key is refused with a plain Error.
SecureGetOutcome_PlainServerError(target, sKeys, ns, att, t, prop) ==
    IF sanitizeEnvKey(prop).kind = "throw"
    THEN Throw(EnvSecurityError(S_INVALID_KEY \o prop))
    ELSE IF ~IsAllowedResult(att, AccessKey(ns, prop), t,
                             ValidationWindowMs, ValidationMaxAttempts)
    THEN Throw(RateLimitError(prop))
    ELSE IF prop \in sKeys
    THEN Throw(PlainError(prop))
    ELSE Return(ObjGet(target, prop))

\* handler.get for a string prop: the outcome
SecureGetOutcome(target, sKeys, ns, att, t, prop) ==
    IF sanitizeEnvKey(prop).kind = "throw"
    THEN Throw(EnvSecurityError(S_INVALID_KEY \o prop))
    ELSE IF ~IsAllowedResult(att, AccessKey(ns, prop), t,
                             ValidationWindowMs, ValidationMaxAttempts)
    THEN Throw(RateLimitError(prop))
    ELSE IF prop \in sKeys
    THEN Throw(EnvSecurityError(prop))
    ELSE Return(ObjGet(target, prop))

\* Variant: the rate limiter is consulted before the sanitizer.
SecureGetAttempts_LimiterFirst(ns, att, t, prop) ==
    IsAllowedAttempts(att, AccessKey(ns, prop), t,
                      ValidationWindowMs, ValidationMaxAttempts)

\* handler.get for a string prop: what it leaves in the rate limiter
SecureGetAttempts(ns, att, t, prop) ==
    IF sanitizeEnvKey(prop).kind = "throw"
    THEN att
    ELSE IsAllowedAttempts(att, AccessKey(ns, prop), t,
                           ValidationWindowMs, ValidationMaxAttempts)

\* handler.has for a string prop
SecureHas(target, sKeys, prop) == prop \notin sKeys /\ InObject(target, prop)

\* Variant: the key list is not filtered.
ClientKeysOf_Unfiltered(target, sKeys) == ObjKeys(target)

\* getClientKeys: Object.keys(env).filter((key) => !serverKeys.has(key))
ClientKeysOf(target, sKeys) == SelectSeq(ObjKeys(target), LAMBDA k : k \notin sKeys)

GetClientKeys(cache, target, sKeys) ==
    IF cache = NULL THEN ClientKeysOf(target, sKeys) ELSE cache

\* Object.getOwnPropertyDescriptor of a data property of an object literal
OwnDescriptor(o, k) ==
    IF ObjHas(o, k)
    THEN <<"descriptor", [value |-> ObjGet(o, k), writable |-> TRUE,
                          enumerable |-> TRUE, configurable |-> TRUE]>>
    ELSE UNDEFINED

\* handler.getOwnPropertyDescriptor for a string prop
SecureGetOwnPropertyDescriptor(target, sKeys, prop) ==
    IF prop \in sKeys THEN UNDEFINED ELSE OwnDescriptor(target, prop)

\* ------------------------------------------------------------------------
\* Execution-context detector
\* ------------------------------------------------------------------------
\* detectRuntime, cache miss: computed from the ambient globals
ComputeRuntime(win, proc, edge) ==
    [isServer |-> ~win /\ proc,
     isClient |-> win,
     isEdgeRuntime |-> (~win /\ proc) /\ edge]

\* Variant: the memo is not consulted.
DetectRuntimeValue_NoMemo(cache, win, proc, edge) == ComputeRuntime(win, proc, edge)

DetectRuntimeValue(cache, win, proc, edge) ==
    IF ~IsNone(cache) THEN cache[1] ELSE ComputeRuntime(win, proc, edge)

\* isServer: typeof window === 'undefined', memoized
IsServerValue(cache, win) == IF ~IsNone(cache) THEN cache[1] ELSE ~win

\* isClient: typeof window !== 'undefined', memoized
IsClientValue(cache, win) == IF ~IsNone(cache) THEN cache[1] ELSE win

\* Variant: the object is guarded in every context.
createSecureEnvProxy_AlwaysGuarded(memo, win) == TRUE

\* Variant: the globals are asked, not the detector.
createSecureEnvProxy_AsksGlobals(memo, win) == win

\* createSecureEnvProxy: TRUE when it returns a Proxy over env, FALSE when
\* it returns env itself; memo is the memo of isClient()
createSecureEnvProxy(memo, win) == IsClientValue(memo, win)

\* ------------------------------------------------------------------------
\* Field schemas and the validators
\* ------------------------------------------------------------------------
\* A value read from an environment object: a string, undefined, or what a
\* lookup of an inherited name (constructor, __proto__) finds.
INHERITED == <<"inherited">>

IsString(v) == v \notin {UNDEFINED, NULL, INHERITED}

\* runtimeEnv[key]
Lookup(o, k) ==
    IF ObjHas(o, k) THEN ObjGet(o, k)
    ELSE IF k \in InheritedKeys THEN INHERITED
    ELSE UNDEFINED

\* zodSchema.safeParse(value).  The schema is the caller's; it is named by
\* what its safeParse does: "string" accepts every string, "min1" every
\* non-empty string, "optional" every string and undefined, "throws" raises
\* from safeParse.  An issue lists the message and the code.
ParseSuccess(data) == [status |-> "success", data |-> data, issues |-> <<>>]
ParseFailure(issues) == [status |-> "failure", data |-> UNDEFINED, issues |-> issues]
ParseThrow(message) ==
    [status |-> "throw", data |-> UNDEFINED, issues |-> <<[message |-> message, code |-> <<>>]>>]

SchemaKinds == {"string", "min1", "optional", "throws"}

SafeParse(kind, value) ==
    IF kind = "throws" THEN ParseThrow(<<"boom">>)
    ELSE IF value = UNDEFINED
    THEN IF kind = "optional" THEN ParseSuccess(UNDEFINED)
         ELSE ParseFailure(<<[message |-> <<"Required">>, code |-> <<"invalid_type">>]>>)
    ELSE IF ~IsString(value)
    THEN ParseFailure(<<[message |-> <<"Expected string">>, code |-> <<"invalid_type">>]>>)
    ELSE IF kind = "min1" /\ Len(value) = 0
    THEN ParseFailure(<<[message |-> <<"String must contain at least 1 character(s)">>,
                         code |-> <<"too_small">>]>>)
    ELSE ParseSuccess(value)

\* messages[j] = errorCode ? `${errorMessage} (code: ${errorCode})` : errorMessage
IssueMessage(issue) ==
    IF issue.code # <<>>
    THEN issue.message \o <<" (code: ">> \o issue.code \o <<")">>
    ELSE issue.message

\* messages.join(', ')
RECURSIVE JoinMessages(_)
JoinMessages(issues) ==
    IF issues = <<>> THEN <<>>
    ELSE IF Len(issues) = 1 THEN IssueMessage(issues[1])
    ELSE IssueMessage(issues[1]) \o <<", ">> \o JoinMessages(Tail(issues))

ValidationEntry(key, message, received) ==
    [key |-> key, message |-> message, received |-> received]

\* One turn of the loop of validateEnv: acc holds result, errors and the
\* safeParse invocations made so far.
ValidateField(schema, runtimeEnv, key, acc) ==
    LET value  == Lookup(runtimeEnv, key)
        parsed == SafeParse(ObjGet(schema, key), value)
        calls  == Append(acc.calls, [key |-> key, value |-> value])
    IN  IF parsed.status = "success"
        THEN [result |-> ObjSet(acc.result, key, parsed.data),
              errors |-> acc.errors, calls |-> calls]
        ELSE IF parsed.status = "failure"
        THEN [result |-> acc.result,
              errors |-> Append(acc.errors,
                                ValidationEntry(key, JoinMessages(parsed.issues), value)),
              calls |-> calls]
        ELSE [result |-> acc.result,
              errors |-> Append(acc.errors,
                                ValidationEntry(key,
                                    <<"Unexpected validation error: ">>
                                        \o parsed.issues[1].message,
                                    value)),
              calls |-> calls]

RECURSIVE ValidateFields(_, _, _, _)
ValidateFields(schema, runtimeEnv, keys, acc) ==
    IF keys = <<>> THEN acc
    ELSE ValidateFields(schema, runtimeEnv, Tail(keys),
                        ValidateField(schema, runtimeEnv, Head(keys), acc))

\* Variant: the loop stops at the first invalid field.
RECURSIVE ValidateFields_FailFast(_, _, _, _)
ValidateFields_FailFast(schema, runtimeEnv, keys, acc) ==
    IF keys = <<>> \/ acc.errors # <<>> THEN acc
    ELSE ValidateFields_FailFast(schema, runtimeEnv, Tail(keys),
                                 ValidateField(schema, runtimeEnv, Head(keys), acc))

NoFields == [result |-> <<>>, errors |-> <<>>, calls |-> <<>>]

\* The end of validateEnv, done being what the loop left
ValidateEnvEnd(done) ==
    [outcome |-> IF Len(done.errors) > 0
                 THEN Throw(EnvValidationError(done.errors))
                 ELSE Return(done.result),
     calls |-> done.calls]

\* Variant of validateEnv that fails fast.
validateEnv_FailFast(schema, runtimeEnv) ==
    ValidateEnvEnd(ValidateFields_FailFast(schema, runtimeEnv, ObjKeys(schema), NoFields))

\* validateEnv: the outcome and the safeParse invocations it made
validateEnv(schema, runtimeEnv) ==
    ValidateEnvEnd(ValidateFields(schema, runtimeEnv, ObjKeys(schema), NoFields))

RECURSIVE CheckClientNames(_)
CheckClientNames(keys) ==
    IF keys = <<>> THEN Return(UNDEFINED)
    ELSE LET key == Head(keys)
             sanitized == sanitizeEnvKey(key)
         IN  IF sanitized.kind = "throw"
             THEN Throw(EnvClientPrefixError(sanitized.value.message))
             ELSE IF ~StartsWith(key, NEXT_PUBLIC)
             THEN Throw(EnvClientPrefixError(key))
             ELSE CheckClientNames(Tail(keys))

\* Variant: the prefix test is missing.
RECURSIVE CheckClientNames_NoPrefixTest(_)
CheckClientNames_NoPrefixTest(keys) ==
    IF keys = <<>> THEN Return(UNDEFINED)
    ELSE LET key == Head(keys)
             sanitized == sanitizeEnvKey(key)
         IN  IF sanitized.kind = "throw"
             THEN Throw(EnvClientPrefixError(sanitized.value.message))
             ELSE CheckClientNames_NoPrefixTest(Tail(keys))

validateClientVariableNames_NoPrefixTest(clientSchema) ==
    CheckClientNames_NoPrefixTest(ObjKeys(clientSchema))

\* validateClientVariableNames: for...in over the own keys
validateClientVariableNames(clientSchema) == CheckClientNames(ObjKeys(clientSchema))

\* ------------------------------------------------------------------------
\* Client values: the injection channel
\* ------------------------------------------------------------------------
\* A value of unknown type (a window property, config.runtimeEnv): its kind
\* and, for a plain object, its entries.
JsUndefined == [type |-> "undefined", obj |-> <<>>]
JsNull == [type |-> "null", obj |-> <<>>]
JsArray == [type |-> "array", obj |-> <<>>]
\* A string: its own properties are its characters, under their indices.
\* JsEmptyText is '' and JsText is 'a'.
JsEmptyText == [type |-> "string", obj |-> <<>>]
JsText == [type |-> "string", obj |-> <<Entry(<<"0">>, <<"a">>)>>]
JsObject(o) == [type |-> "object", obj |-> o]

S_CHANNEL == <<"_","_","E","N","V">>

\* namespace ? `__ENV_${namespace}__` : '__ENV'
ChannelKey(ns) ==
    IF Truthy(ns) THEN S_CHANNEL \o <<"_">> \o ns \o <<"_","_">> ELSE S_CHANNEL

\* An own property of window: its value and the writable and configurable
\* flags of its descriptor
Property(v, writable, configurable) ==
    [type |-> v.type, obj |-> v.obj, writable |-> writable,
     configurable |-> configurable]

\* Object.defineProperty(window, envKey, {value, writable: false,
\* configurable: false}), as the injected script defines the payload
Defined(v) == Property(v, FALSE, FALSE)

\* window[envKey] = v
Assigned(v) == Property(v, TRUE, TRUE)

\* window[envKey]
WindowValue(wEnv, envKey) == IF envKey \in DOMAIN wEnv THEN wEnv[envKey] ELSE JsUndefined

\* !v, for the values of this module: undefined, null and '' are falsy,
\* every object, array and non-empty string is truthy
Falsy(v) == v.type \in {"undefined", "null"} \/ (v.type = "string" /\ v.obj = <<>>)

\* validateWindowEnvIntegrity(envKey)
validateWindowEnvIntegrity(win, wEnv, envKey) ==
    IF ~win THEN TRUE
    ELSE IF Falsy(WindowValue(wEnv, envKey)) THEN FALSE
    ELSE ~(envKey \in DOMAIN wEnv
              /\ (wEnv[envKey].writable \/ wEnv[envKey].configurable))

\* The own entries whose key starts with NEXT_PUBLIC_, in for...in order
PublicOnly(o) ==
    LET keys == SelectSeq(ObjKeys(o), LAMBDA k : StartsWith(k, NEXT_PUBLIC))
    IN  [i \in 1..Len(keys) |-> Entry(keys[i], ObjGet(o, keys[i]))]

\* getClientEnv from the validation step on, envVars being settled
\* Variant: the catch rethrows in every mode.
ClientEnvCaught_Rethrows(v, envVars, mode) == v

\* The catch around validateEnv in getClientEnv, v being its outcome
ClientEnvCaught(v, envVars, mode) ==
    IF v.outcome.kind = "throw" /\ mode = "development"
    THEN [outcome |-> Return(envVars), calls |-> v.calls]
    ELSE v

ClientEnvValidated(schema, envVars, skipValidation, mode) ==
    IF ~skipValidation /\ Len(schema) > 0
    THEN ClientEnvCaught(validateEnv(schema, envVars), envVars, mode)
    ELSE [outcome |-> Return(envVars), calls |-> <<>>]

\* A return of getClientEnv before the integrity check
Unchecked(outcome) == [outcome |-> outcome, calls |-> <<>>, warned |-> FALSE]

\* Variant: a failed integrity check blocks the read.
ClientEnvChecked_Blocks(win, wEnv, ns, mode, v) ==
    IF win /\ ~validateWindowEnvIntegrity(win, wEnv, ChannelKey(ns))
    THEN [outcome |-> Throw(EnvSecurityError(ChannelKey(ns))), calls |-> <<>>,
          warned |-> mode = "development"]
    ELSE [outcome |-> v.outcome, calls |-> v.calls, warned |-> FALSE]

\* The integrity check of getClientEnv, v being what the validation step
\* after it gives: a failed check warns in development
ClientEnvChecked(win, wEnv, ns, mode, v) ==
    [outcome |-> v.outcome, calls |-> v.calls,
     warned |-> /\ win
                /\ ~validateWindowEnvIntegrity(win, wEnv, ChannelKey(ns))
                /\ mode = "development"]

\* getClientEnv: client is the answer of isClient(), win is
\* typeof window !== 'undefined', wEnv the window properties, mode
\* process.env.NODE_ENV.  The outcome and the safeParse invocations made.
getClientEnv(schema, runtimeEnv, skipValidation, ns, client, win, wEnv, mode) ==
    LET payload == WindowValue(wEnv, ChannelKey(ns))
        fromWindow == IF win /\ payload.type = "object" THEN Some(payload.obj) ELSE None
        fallback == PublicOnly(runtimeEnv.obj)
        envVars == IF IsNone(fromWindow) /\ runtimeEnv.type = "object"
                   THEN Some(fallback) ELSE fromWindow
    IN  IF ~client THEN Unchecked(Return(<<>>))
        ELSE IF IsNone(envVars) \/ Len(envVars[1]) = 0
        THEN IF Len(schema) = 0 \/ skipValidation
             THEN Unchecked(Return(<<>>))
             ELSE IF mode = "development"
             THEN IF runtimeEnv.type = "object" /\ Len(fallback) > 0
                  THEN ClientEnvChecked(win, wEnv, ns, mode,
                           ClientEnvValidated(schema, fallback, skipValidation, mode))
                  ELSE Unchecked(Return(<<>>))
             ELSE Unchecked(Throw(EnvNotInitializedError))
        ELSE ClientEnvChecked(win, wEnv, ns, mode,
                 ClientEnvValidated(schema, envVars[1], skipValidation, mode))

\* getClientEnv reads window[envKey] when isClient() answered true and
\* typeof window !== 'undefined'
ReadsGlobal(client, win) == client /\ win

\* getClientEnv returns envVars itself, and envVars is the object found
\* at window[envKey]: that object has entries and either nothing is
\* validated or validation failed in development.  Every other return is
\* an object made by getClientEnv or by validateEnv.
ReturnsWindowObject(schema, skipValidation, ns, client, win, wEnv, mode) ==
    LET payload == WindowValue(wEnv, ChannelKey(ns))
    IN  /\ client
        /\ win /\ payload.type = "object"
        /\ Len(payload.obj) > 0
        /\ IF ~skipValidation /\ Len(schema) > 0
           THEN /\ validateEnv(schema, payload.obj).outcome.kind = "throw"
                /\ mode = "development"
           ELSE TRUE

\* What getEnv gives: the outcome, the safeParse invocations made, whether
\* getClientEnv was called, whether that call warned that the integrity
\* check failed, and whether the object it returned is the one the page
\* holds at window[envKey]
EnvCached(cEnv) ==
    [outcome |-> Return(cEnv[1]), calls |-> <<>>, asked |-> FALSE, warned |-> FALSE,
     shared |-> FALSE]
EnvResolved(r, shared) ==
    [outcome |-> r.outcome, calls |-> r.calls, asked |-> TRUE, warned |-> r.warned,
     shared |-> shared]

\* createClientEnvProxy.getEnv, cEnv being cachedEnv and args the
\* arguments of createClientEnvProxy
getEnv(cEnv, args, client, win, wEnv, mode) ==
    IF ~IsNone(cEnv) THEN EnvCached(cEnv)
    ELSE EnvResolved(getClientEnv(args.schema, args.runtimeEnv, args.skipValidation,
                                  args.namespace, client, win, wEnv, mode),
                     ReturnsWindowObject(args.schema, args.skipValidation,
                                         args.namespace, client, win, wEnv, mode))

\* What a handler gives when it did not call getEnv
NoEnv ==
    [outcome |-> Return(<<>>), calls |-> <<>>, asked |-> FALSE, warned |-> FALSE,
     shared |-> FALSE]

\* A value a handler returns is recorded under the field returned.
Returned(v) == Return([returned |-> v])

\* handler.get for a string prop, e being what getEnv gave: env[prop]
ClientGet(e, prop) ==
    IF e.outcome.kind = "throw" THEN e.outcome
    ELSE Returned(Lookup(e.outcome.value, prop))

\* cachedKeys.includes(prop)
Includes(keys, prop) == \E i \in 1..Len(keys) : keys[i] = prop

\* handler.has for a string prop, e being what getEnv gave when cachedKeys
\* is null
ClientHas(cKeys, e, prop) ==
    IF ~IsNone(cKeys) THEN Returned(Includes(cKeys[1], prop))
    ELSE IF e.outcome.kind = "throw" THEN e.outcome
    ELSE Returned(InObject(e.outcome.value, prop))

\* handler.ownKeys
ClientOwnKeys(cKeys, e) ==
    IF ~IsNone(cKeys) THEN Returned(cKeys[1])
    ELSE IF e.outcome.kind = "throw" THEN e.outcome
    ELSE Returned(ObjKeys(e.outcome.value))

\* handler.getOwnPropertyDescriptor for a string prop
ClientGetOwnPropertyDescriptor(e, prop) ==
    IF e.outcome.kind = "throw" THEN e.outcome
    ELSE IF InObject(e.outcome.value, prop)
    THEN Returned(<<"descriptor", [value |-> Lookup(e.outcome.value, prop),
                                   enumerable |-> TRUE, configurable |-> TRUE]>>)
    ELSE Returned(UNDEFINED)

\* { ...a, ...b }: the own enumerable entries of a, then those of b
RECURSIVE AssignAll(_, _, _)
AssignAll(target, source, keys) ==
    IF keys = <<>> THEN target
    ELSE AssignAll(ObjSet(target, Head(keys), ObjGet(source, Head(keys))),
                   source, Tail(keys))

Spread(a, b) == AssignAll(AssignAll(<<>>, a, ObjKeys(a)), b, ObjKeys(b))

\* ------------------------------------------------------------------------
\* createEnv
\* ------------------------------------------------------------------------
\* A namespace that is not a string
NON_STRING == <<"number">>

IsJsString(v) == v \notin {UNDEFINED, NULL, NON_STRING, INHERITED}

\* String.prototype.trim, for the blank the inputs hold
RECURSIVE Trim(_)
Trim(s) ==
    IF s = <<>> THEN s
    ELSE IF Head(s) = " " THEN Trim(Tail(s))
    ELSE IF s[Len(s)] = " " THEN Trim(SubSeq(s, 1, Len(s) - 1))
    ELSE s

\* /^[a-zA-Z0-9_-]+$/
MatchesNamespacePattern(ns) ==
    /\ Len(ns) >= 1
    /\ \A i \in 1..Len(ns) :
          ns[i] \in LowerCase \cup UpperCase \cup DigitChars \cup {"_", "-"}

\* The properties of a configuration, one left out being undefined
ConfigNamespace(config) ==
    IF "namespace" \in DOMAIN config THEN config.namespace ELSE UNDEFINED
ConfigRuntimeEnv(config) ==
    IF "runtimeEnv" \in DOMAIN config THEN config.runtimeEnv ELSE JsUndefined

\* What validateConfig returns for a configuration it accepts
NormalizedConfig(config) ==
    [server |-> IF "server" \in DOMAIN config THEN config.server ELSE <<>>,
     client |-> IF "client" \in DOMAIN config THEN config.client ELSE <<>>,
     runtimeEnv |-> config.runtimeEnv.obj,
     skipValidation |-> IF "skipValidation" \in DOMAIN config
                        THEN config.skipValidation ELSE FALSE,
     namespace |-> ConfigNamespace(config),
     runtimeAdapter |-> config.runtimeAdapter]

\* Variant: the format of the namespace is not tested.
validateConfig_NoPatternTest(config) ==
    IF ConfigNamespace(config) # UNDEFINED /\ ~IsJsString(ConfigNamespace(config))
    THEN Throw(TypeError(<<"namespace must be a string">>))
    ELSE IF ConfigNamespace(config) # UNDEFINED /\ Len(Trim(ConfigNamespace(config))) = 0
    THEN Throw(PlainError(<<"namespace cannot be empty">>))
    ELSE IF ConfigRuntimeEnv(config).type \notin {"object", "array"}
    THEN Throw(TypeError(<<"runtimeEnv must be an object">>))
    ELSE Return(NormalizedConfig(config))

\* EnvConfigManager.validateConfig
validateConfig(config) ==
    IF ConfigNamespace(config) # UNDEFINED /\ ~IsJsString(ConfigNamespace(config))
    THEN Throw(TypeError(<<"namespace must be a string">>))
    ELSE IF ConfigNamespace(config) # UNDEFINED /\ Len(Trim(ConfigNamespace(config))) = 0
    THEN Throw(PlainError(<<"namespace cannot be empty">>))
    ELSE IF ConfigNamespace(config) # UNDEFINED
            /\ ~MatchesNamespacePattern(ConfigNamespace(config))
    THEN Throw(PlainError(<<"namespace can only contain alphanumeric characters, underscores, and hyphens">>))
    ELSE IF ConfigRuntimeEnv(config).type \notin {"object", "array"}
    THEN Throw(TypeError(<<"runtimeEnv must be an object">>))
    ELSE Return(NormalizedConfig(config))

\* createRuntimeAdapter: the adapter class chosen from the ambient globals
createRuntimeAdapter(win, proc, edge) ==
    IF win THEN "client"
    ELSE IF (~win /\ proc) /\ edge THEN "edge"
    ELSE "server"

\* Object.fromEntries(Object.keys(schema).map((key) => [key, runtimeEnv[key]]))
RawValues(schema, runtimeEnv) ==
    LET keys == ObjKeys(schema)
    IN  AssignAll(<<>>, [i \in 1..Len(keys) |-> Entry(keys[i], Lookup(runtimeEnv, keys[i]))],
                  keys)

\* Variant: skipValidation is ignored.
AdapterValidate_IgnoresSkip(schema, runtimeEnv, skipValidation) ==
    validateEnv(schema, runtimeEnv)

\* ServerRuntimeAdapter and EdgeRuntimeAdapter: validateServerEnv and
\* validateClientEnv have the same body
AdapterValidate(schema, runtimeEnv, skipValidation) ==
    IF skipValidation \/ Len(schema) = 0
    THEN [outcome |-> Return(RawValues(schema, runtimeEnv)), calls |-> <<>>]
    ELSE validateEnv(schema, runtimeEnv)

\* Variant: the client adapter validates the server group as the others do.
validateServerEnv_ClientValidates(adapter, schema, runtimeEnv, skipValidation) ==
    AdapterValidate(schema, runtimeEnv, skipValidation)

\* adapter.validateServerEnv
validateServerEnv(adapter, schema, runtimeEnv, skipValidation) ==
    IF adapter = "client"
    THEN [outcome |-> Return(<<>>), calls |-> <<>>]
    ELSE AdapterValidate(schema, runtimeEnv, skipValidation)

\* adapter.validateClientEnv followed by the spread of its result: on the
\* client adapter the result is the lazy object of createClientEnvProxy,
\* whose ownKeys calls getClientEnv when createEnv spreads it.
validateClientEnv(adapter, schema, runtimeEnv, skipValidation, ns, client, win, wEnv, mode) ==
    IF adapter = "client"
    THEN getClientEnv(schema, JsObject(runtimeEnv), skipValidation, ns, client, win, wEnv, mode)
    ELSE AdapterValidate(schema, runtimeEnv, skipValidation)

\* Whether the getClientEnv call of the spread warned that the integrity
\* check failed: None when createEnv did not come to call getClientEnv
SpreadWarned(clientEnv) ==
    IF "warned" \in DOMAIN clientEnv THEN Some(clientEnv.warned) ELSE None

CreateEnvFailed(error, calls, memo, warned) ==
    [outcome |-> Throw(error), calls |-> calls, memo |-> memo, warned |-> warned]

\* createEnv from the merge on, serverEnv and clientEnv being what the
\* adapter gave for the two groups
CreateEnvMerged(c, memo, client, asked, serverEnv, clientEnv) ==
    IF serverEnv.outcome.kind = "throw"
    THEN CreateEnvFailed(serverEnv.outcome.value, serverEnv.calls, memo, None)
    ELSE IF clientEnv.outcome.kind = "throw"
    THEN CreateEnvFailed(clientEnv.outcome.value,
                         serverEnv.calls \o clientEnv.calls, asked,
                         SpreadWarned(clientEnv))
    ELSE [outcome |-> Return([guarded |-> client,
                              env |-> Spread(serverEnv.outcome.value,
                                             clientEnv.outcome.value),
                              serverKeys |-> {c.server[i].key : i \in 1..Len(c.server)},
                              namespace |-> c.namespace]),
          calls |-> serverEnv.calls \o clientEnv.calls,
          memo |-> Some(client),
          warned |-> SpreadWarned(clientEnv)]

\* createEnv from the choice of the adapter on, c being the normalized
\* configuration
CreateEnvValidated(c, adapter, memo, client, win, wEnv, mode) ==
    CreateEnvMerged(c, memo, client,
        IF adapter = "client" THEN Some(client) ELSE memo,
        validateServerEnv(adapter, c.server, c.runtimeEnv, c.skipValidation),
        validateClientEnv(adapter, c.client, c.runtimeEnv, c.skipValidation,
                          c.namespace, client, win, wEnv, mode))

\* createEnv after validateConfig, normalized being its outcome
CreateEnvNormalized(normalized, memo, win, proc, edge, wEnv, mode) ==
    LET c == normalized.value
        names == IF Len(c.client) > 0
                 THEN validateClientVariableNames(c.client)
                 ELSE Return(UNDEFINED)
    IN  IF normalized.kind = "throw"
        THEN CreateEnvFailed(normalized.value, <<>>, memo, None)
        ELSE IF names.kind = "throw"
        THEN CreateEnvFailed(names.value, <<>>, memo, None)
        ELSE CreateEnvValidated(c,
                 IF c.runtimeAdapter # "none" THEN c.runtimeAdapter
                 ELSE createRuntimeAdapter(win, proc, edge),
                 memo, IsClientValue(memo, win), win, wEnv, mode)

\* createEnv: the outcome, the safeParse invocations made, the memo of
\* isClient() afterwards and what the getClientEnv call warned, if made.  The value returned is the merged environment,
\* guarded when isClient() answered true.
createEnv(config, memo, win, proc, edge, wEnv, mode) ==
    CreateEnvNormalized(validateConfig(config), memo, win, proc, edge, wEnv, mode)

\* ------------------------------------------------------------------------
\* Script generator
\* ------------------------------------------------------------------------
\* A code unit that has no notation of its own in a string of this module
\* is written as the name of its code point: U+ and four hexadecimal
\* digits, the letters in lower case
CodeUnit(h) == "U+" \o h[1] \o h[2] \o h[3] \o h[4]

CH_NUL == CodeUnit(<<"0","0","0","0">>)
CH_SOH == CodeUnit(<<"0","0","0","1">>)
CH_BACKSPACE == CodeUnit(<<"0","0","0","8">>)
CH_VT == CodeUnit(<<"0","0","0","b">>)
CH_US == CodeUnit(<<"0","0","1","f">>)

HexDigits == <<"0","1","2","3","4","5","6","7","8","9","a","b","c","d","e","f">>
HexDigitSet == {HexDigits[n] : n \in 1..16}

\* The digits of the code units below U+0020 other than \b \t \n \f \r
ControlHex ==
    {<<"0","0",a,b>> : a \in {"0","1"}, b \in HexDigitSet}
        \ {<<"0","0","0",b>> : b \in {"8","9","a","c","d"}}

\* The digits of the surrogate code units: the leading ones U+d800..U+dbff
\* and the trailing ones U+dc00..U+dfff
LeadHex == {<<"d",a,b,c>> : a \in {"8","9","a","b"}, b \in HexDigitSet, c \in HexDigitSet}
TrailHex == {<<"d",a,b,c>> : a \in {"c","d","e","f"}, b \in HexDigitSet, c \in HexDigitSet}

ControlUnits == {CodeUnit(h) : h \in ControlHex}
LeadUnits == {CodeUnit(h) : h \in LeadHex}
TrailUnits == {CodeUnit(h) : h \in TrailHex}

\* The surrogates by their second and third digit
SurrogateRows == {<<a, b>> : a \in {"8","9","a","b","c","d","e","f"}, b \in HexDigitSet}
SurrogateUnits ==
    [row \in SurrogateRows |-> {CodeUnit(<<"d", row[1], row[2], x>>) : x \in HexDigitSet}]

EscapedUnits == ControlUnits \cup LeadUnits \cup TrailUnits

IsLeadSurrogate(c) == c \in LeadUnits
IsTrailSurrogate(c) == c \in TrailUnits

\* The four hexadecimal digits JSON.stringify writes after \u for a code
\* unit it escapes that way: a character below U+0020 that has no short
\* escape, or a surrogate
HexOfSurrogate(c, row) ==
    CHOOSE h \in {<<"d", row[1], row[2], x>> : x \in HexDigitSet} : CodeUnit(h) = c

HexOfControl(c) ==
    IF c \in ControlUnits THEN CHOOSE h \in ControlHex : CodeUnit(h) = c
    ELSE HexOfSurrogate(c, CHOOSE row \in SurrogateRows : c \in SurrogateUnits[row])

\* JSON.stringify of one code unit of a string that is not half of a
\* surrogate pair (QuoteJSONString): the quote, the backslash, every
\* character below U+0020 and a lone surrogate are escaped
JsonEscapeChar(c) ==
    CASE c \in {"\"", "\\"} -> <<"\\", c>>
      [] c = "\n" -> <<"\\", "n">>
      [] c = "\t" -> <<"\\", "t">>
      [] c = "\r" -> <<"\\", "r">>
      [] c = "\f" -> <<"\\", "f">>
      [] c = CH_BACKSPACE -> <<"\\", "b">>
      [] c \in EscapedUnits
            -> <<"\\", "u">> \o HexOfControl(c)
      [] OTHER -> <<c>>

\* JSON.stringify of a string: the characters between the quotes.  A
\* leading surrogate followed by a trailing one is a pair and is written as
\* it is.
RECURSIVE JsonEscape(_)
JsonEscape(s) ==
    IF s = <<>> THEN <<>>
    ELSE IF Len(s) >= 2 /\ IsLeadSurrogate(s[1]) /\ IsTrailSurrogate(s[2])
    THEN <<s[1], s[2]>> \o JsonEscape(Tail(Tail(s)))
    ELSE JsonEscapeChar(Head(s)) \o JsonEscape(Tail(s))

JsonQuote(s) == <<"\"">> \o JsonEscape(s) \o <<"\"">>

S_NULL == <<"n","u","l","l">>

\* JSON.stringify of a value that is a string or null
JsonValue(v) == IF v = NULL THEN S_NULL ELSE JsonQuote(v)

JsonMember(k, v, rest) ==
    JsonQuote(k) \o <<":">> \o JsonValue(v)
        \o (IF rest = <<>> THEN <<>> ELSE <<",">> \o rest)

\* The members JSON.stringify writes for an object: a member whose value is
\* undefined is left out
RECURSIVE JsonMembers(_, _)
JsonMembers(o, keys) ==
    IF keys = <<>> THEN <<>>
    ELSE IF ObjGet(o, Head(keys)) = UNDEFINED
    THEN JsonMembers(o, Tail(keys))
    ELSE JsonMember(Head(keys), ObjGet(o, Head(keys)), JsonMembers(o, Tail(keys)))

\* JSON.stringify(envObject)
JsonStringify(o) == <<"{">> \o JsonMembers(o, ObjKeys(o)) \o <<"}">>

\* Variant: a key the sanitizer refuses is kept.
SanitizedEntry_KeepsAll(envVars, key, acc) == ObjSet(acc, key, ObjGet(envVars, key))

\* The body of the loop of generateEnvScript: a key the sanitizer refuses
\* is skipped
SanitizedEntry(envVars, key, acc) ==
    IF sanitizeEnvKey(key).kind = "throw" THEN acc
    ELSE ObjSet(acc, sanitizeEnvKey(key).value, ObjGet(envVars, key))

\* The loop of generateEnvScript over the keys of envVars
RECURSIVE SanitizedVars(_, _, _)
SanitizedVars(envVars, keys, acc) ==
    IF keys = <<>> THEN acc
    ELSE SanitizedVars(envVars, Tail(keys), SanitizedEntry(envVars, Head(keys), acc))

\* Variant: the generator writes every payload at the default key.
GeneratorEnvKey_NoNamespace(ns) == S_CHANNEL

\* generateEnvScript: namespace ? `__ENV_${namespace}__` : '__ENV'
GeneratorEnvKey(ns) ==
    IF Truthy(ns) THEN S_CHANNEL \o <<"_">> \o ns \o <<"_","_">> ELSE S_CHANNEL

\* The literal pieces of the script template
S_SCRIPT_OPEN == "(function(){Object.defineProperty(window,'"
S_SCRIPT_FREEZE == "',{value:Object.freeze("
S_SCRIPT_CLOSE == "),writable:false,configurable:false});})();"

\* The script text: the literal pieces of the template kept whole, the
\* interpolated key and JSON text character by character
ScriptContent(envKey, serializedEnv) ==
    <<S_SCRIPT_OPEN>> \o envKey \o <<S_SCRIPT_FREEZE>> \o serializedEnv
        \o <<S_SCRIPT_CLOSE>>

GenerateFrom(sanitizedVars, ns) ==
    IF Len(ObjKeys(sanitizedVars)) = 0 THEN <<>>
    ELSE ScriptContent(GeneratorEnvKey(ns), JsonStringify(sanitizedVars))

\* generateEnvScript(envVars, namespace): the script text, '' being <<>>
generateEnvScript(envVars, ns) ==
    GenerateFrom(SanitizedVars(envVars, ObjKeys(envVars), <<>>), ns)

\* A hexadecimal digit in lower case, and its value
HexLower(d) ==
    CASE d = "A" -> "a" [] d = "B" -> "b" [] d = "C" -> "c"
      [] d = "D" -> "d" [] d = "E" -> "e" [] d = "F" -> "f"
      [] OTHER -> d

HexVal(d) == (CHOOSE n \in 1..16 : HexDigits[n] = HexLower(d)) - 1

\* The characters U+0020..U+007e; the grave accent has no notation in a
\* string of this module
Printable ==
    <<" ", "!", "\"", "#", "$", "%", "&", "'", "(", ")", "*", "+",
      ",", "-", ".", "/", "0", "1", "2", "3", "4", "5", "6", "7",
      "8", "9", ":", ";", "<", "=", ">", "?", "@", "A", "B", "C",
      "D", "E", "F", "G", "H", "I", "J", "K", "L", "M", "N", "O",
      "P", "Q", "R", "S", "T", "U", "V", "W", "X", "Y", "Z", "[",
      "\\", "]", "^", "_", CodeUnit(<<"0","0","6","0">>), "a", "b", "c", "d", "e", "f", "g",
      "h", "i", "j", "k", "l", "m", "n", "o", "p", "q", "r", "s",
      "t", "u", "v", "w", "x", "y", "z", "{", "|", "}", "~">>

\* The code unit with the code of four hexadecimal digits
CharOfCode(n, h) ==
    CASE n = 9 -> "\t"
      [] n = 10 -> "\n"
      [] n = 12 -> "\f"
      [] n = 13 -> "\r"
      [] n \in 32..126 -> Printable[n - 31]
      [] OTHER -> CodeUnit(<<HexLower(h[1]), HexLower(h[2]), HexLower(h[3]),
                             HexLower(h[4])>>)

CharOfHex(h) ==
    CharOfCode(4096 * HexVal(h[1]) + 256 * HexVal(h[2]) + 16 * HexVal(h[3])
                   + HexVal(h[4]), h)

\* An escape sequence of a string literal, text[i] being the character
\* after the backslash: the character it stands for and the position after
\* the sequence
ReadEscape(text, i) ==
    CASE text[i] = "n" -> [char |-> "\n", next |-> i + 1]
      [] text[i] = "t" -> [char |-> "\t", next |-> i + 1]
      [] text[i] = "r" -> [char |-> "\r", next |-> i + 1]
      [] text[i] = "f" -> [char |-> "\f", next |-> i + 1]
      [] text[i] = "b" -> [char |-> CH_BACKSPACE, next |-> i + 1]
      [] text[i] = "v" -> [char |-> CH_VT, next |-> i + 1]
      [] text[i] = "0" -> [char |-> CH_NUL, next |-> i + 1]
      [] text[i] = "x" -> [char |-> CharOfHex(<<"0","0">> \o SubSeq(text, i + 1, i + 2)),
                           next |-> i + 3]
      [] text[i] = "u" -> [char |-> CharOfHex(SubSeq(text, i + 1, i + 4)),
                           next |-> i + 5]
      [] OTHER -> [char |-> text[i], next |-> i + 1]

\* What a browser reads in the JSON text of the script: a string literal
\* from position i, the position after the opening quote
RECURSIVE ReadString(_, _, _)
ReadEscaped(text, escape, acc) ==
    ReadString(text, escape.next, Append(acc, escape.char))

ReadString(text, i, acc) ==
    IF text[i] = "\"" THEN [value |-> acc, next |-> i + 1]
    ELSE IF text[i] = "\\" THEN ReadEscaped(text, ReadEscape(text, i + 1), acc)
    ELSE ReadString(text, i + 1, Append(acc, text[i]))

\* A value from position i: a string literal or null
ReadValue(text, i) ==
    IF text[i] = "\"" THEN ReadString(text, i + 1, <<>>)
    ELSE [value |-> NULL, next |-> i + Len(S_NULL)]

\* The members of an object literal from position i on
RECURSIVE ReadMembers(_, _, _)
ReadMemberValue(text, key, value, acc) ==
    ReadMembers(text, value.next, ObjSet(acc, key.value, value.value))

ReadMemberKey(text, key, acc) ==
    ReadMemberValue(text, key, ReadValue(text, key.next + 1), acc)

ReadMembers(text, i, acc) ==
    IF text[i] = "}" THEN acc
    ELSE IF text[i] = "," THEN ReadMembers(text, i + 1, acc)
    ELSE ReadMemberKey(text, ReadString(text, i + 1, <<>>), acc)

ReadObject(text) == ReadMembers(text, 2, <<>>)

\* Where the piece of the template stands in the script
PieceAt(script, piece) == CHOOSE i \in 1..Len(script) : script[i] = piece

\* What running the script defines: the property name, the payload and the
\* flags of Object.freeze and of the descriptor
ScriptDefines(script) ==
    [envKey |-> SubSeq(script, 2, PieceAt(script, S_SCRIPT_FREEZE) - 1),
     payload |-> ReadObject(SubSeq(script, PieceAt(script, S_SCRIPT_FREEZE) + 1,
                                   Len(script) - 1)),
     frozen |-> \E i \in 1..Len(script) : script[i] = S_SCRIPT_FREEZE,
     writable |-> script[Len(script)] # S_SCRIPT_CLOSE,
     configurable |-> script[Len(script)] # S_SCRIPT_CLOSE]

\* ServerRuntimeAdapter.getClientEnvKey
ServerGetClientEnvKey(ns) ==
    IF Truthy(ns) THEN S_CHANNEL \o <<"_">> \o ns \o <<"_","_">> ELSE S_CHANNEL

\* ClientRuntimeAdapter.getClientEnvKey
ClientGetClientEnvKey(ns) ==
    IF Truthy(ns) THEN S_CHANNEL \o <<"_">> \o ns \o <<"_","_">> ELSE S_CHANNEL

\* EdgeRuntimeAdapter.getClientEnvKey
EdgeGetClientEnvKey(ns) ==
    IF Truthy(ns) THEN S_CHANNEL \o <<"_">> \o ns \o <<"_","_">> ELSE S_CHANNEL

\* adapter.getClientEnvKey(namespace)
getClientEnvKey(adapter, ns) ==
    IF adapter = "client" THEN ClientGetClientEnvKey(ns)
    ELSE IF adapter = "edge" THEN EdgeGetClientEnvKey(ns)
    ELSE ServerGetClientEnvKey(ns)

\* ------------------------------------------------------------------------
\* State
\* ------------------------------------------------------------------------
VARIABLES
    attempts,         \* RateLimiter.attempts: key -> list of timestamps
    now,              \* Date.now()
    windowMs,         \* RateLimiter.windowMs
    maxAttempts,      \* RateLimiter.maxAttempts
    cleanupInterval,  \* ManagedRateLimiter.cleanupInterval is set
    allowedLog,       \* history: per key never cleared, the times of the
                      \* allowed calls that are younger than the window
    clearedKeys,      \* history: keys on which clear was called
    env,              \* createSecureEnvProxy: the wrapped environment
    serverKeys,       \* createSecureEnvProxy: the server-key set
    namespace,        \* createSecureEnvProxy: the namespace argument
    cachedClientKeys, \* createSecureEnvProxy: cachedClientKeys
    guarded,          \* createSecureEnvProxy returned a Proxy, not env itself
    hasWindow,        \* typeof window !== 'undefined'
    hasProcess,       \* typeof process !== 'undefined'
    hasEdgeRuntime,   \* typeof globalThis.EdgeRuntime !== 'undefined'
    cachedRuntime,    \* detector.ts: cachedRuntime
    cachedIsServer,   \* detector.ts: cachedIsServer
    cachedIsClient,   \* detector.ts: cachedIsClient
    firstSeen,        \* history: per detector function, the result of its
                      \* first call since the last reset
    windowEnv,        \* the value of window[channel key], per channel key
    nodeEnv,          \* process.env.NODE_ENV
    proxyArgs,        \* createClientEnvProxy: its arguments, once called
    cachedEnv,        \* createClientEnvProxy: cachedEnv
    cachedKeys,       \* createClientEnvProxy: cachedKeys
    cachedOwner,      \* which object cachedEnv refers to: "none" before a
                      \* resolution, "proxy" for an object getClientEnv made,
                      \* "window" for the object the page holds at
                      \* window[envKey], "page" for an object the page held
                      \* there and has replaced since
    globalReads,      \* history: how often getClientEnv read window[envKey]
                      \* for the client env proxy
    tamperWarned,     \* history: the last getClientEnv call warned that the
                      \* integrity check failed
    rendered,         \* the server's render: the arguments generateEnvScript
                      \* was given and the script it returned
    strategy,         \* a RetryFallbackStrategy: maxRetries, retryDelay and
                      \* retryCount
    fallback,         \* a getEnvWithFallback call: where it stands, what each
                      \* getEnv attempt did and the delays it waited
    schemaCalls,      \* the field-schema invocations of the last call
    result            \* the last call and its outcome

limiterVars == <<attempts, now, windowMs, maxAttempts, cleanupInterval,
                 allowedLog, clearedKeys>>
guardVars == <<env, serverKeys, namespace, cachedClientKeys, guarded>>
globalVars == <<hasWindow, hasProcess, hasEdgeRuntime>>
detectorVars == <<cachedRuntime, cachedIsServer, cachedIsClient, firstSeen>>
clientProxyVars == <<proxyArgs, cachedEnv, cachedKeys, cachedOwner, globalReads>>
retryVars == <<strategy, fallback>>
channelVars == <<windowEnv, nodeEnv, clientProxyVars, tamperWarned, rendered, retryVars>>
vars == <<attempts, now, windowMs, maxAttempts, cleanupInterval, allowedLog,
          clearedKeys, env, serverKeys, namespace, cachedClientKeys, guarded,
          hasWindow, hasProcess, hasEdgeRuntime, cachedRuntime, cachedIsServer,
          cachedIsClient, firstSeen, windowEnv, nodeEnv, proxyArgs, cachedEnv,
          cachedKeys, cachedOwner, globalReads, tamperWarned, rendered, strategy, fallback,
          schemaCalls, result>>

\* The parts of the state a specification leaves idle.
IdleLimiter ==
    /\ attempts = EmptyMap
    /\ now = 0
    /\ windowMs = ValidationWindowMs
    /\ maxAttempts = ValidationMaxAttempts
    /\ cleanupInterval = TRUE
    /\ allowedLog = EmptyMap
    /\ clearedKeys = {}

IdleGuard ==
    /\ env = <<>>
    /\ serverKeys = {}
    /\ namespace = UNDEFINED
    /\ cachedClientKeys = NULL
    /\ guarded = FALSE

NothingSeen == [detectRuntime |-> None, isServer |-> None, isClient |-> None]

IdleDetector ==
    /\ cachedRuntime = None
    /\ cachedIsServer = None
    /\ cachedIsClient = None
    /\ firstSeen = NothingSeen

\* No getEnvWithFallback call was made
IdleRetry ==
    /\ strategy = [maxRetries |-> 0, retryDelay |-> 0, retryCount |-> 0]
    /\ fallback = [pc |-> "idle", attempted |-> <<>>, waits |-> <<>>, resets |-> 0, asked |-> 0]

\* No client env proxy was made and no script rendered
IdleClientProxy ==
    /\ proxyArgs = None
    /\ cachedEnv = None
    /\ cachedKeys = None
    /\ cachedOwner = "none"
    /\ globalReads = 0
    /\ tamperWarned = FALSE
    /\ rendered = None
    /\ IdleRetry

IdleChannel ==
    /\ windowEnv = EmptyMap
    /\ nodeEnv = "production"
    /\ IdleClientProxy

\* ------------------------------------------------------------------------
\* Rate limiter: operations
\* ------------------------------------------------------------------------
MaxClock == 5
MaxWindow == 3
MaxLimit == 2
LimiterKeys == {<<"k">>, <<"j">>}

LogAppend(log, key, t) == MapSet(log, key, Append(MapGet(log, key), t))
\* The history keeps the calls younger than the window: now - t < windowMs.
LogPrune(log, t, w) ==
    [k \in DOMAIN log |-> SelectSeq(log[k], LAMBDA x : x > t - w)]

IsAllowed(key) ==
    /\ result' = Called("isAllowed", key,
                    Return(IsAllowedResult(attempts, key, now, windowMs, maxAttempts)))
    /\ attempts' = IsAllowedAttempts(attempts, key, now, windowMs, maxAttempts)
    /\ allowedLog' = IF /\ IsAllowedResult(attempts, key, now, windowMs, maxAttempts)
                        /\ key \notin clearedKeys
                     THEN LogAppend(allowedLog, key, now)
                     ELSE allowedLog
    /\ UNCHANGED <<now, windowMs, maxAttempts, cleanupInterval, clearedKeys>>
    /\ UNCHANGED <<guardVars, globalVars, detectorVars, channelVars, schemaCalls>>

Clear(key) ==
    /\ attempts' = ClearAttempts(attempts, key)
    /\ clearedKeys' = clearedKeys \cup {key}
    /\ allowedLog' = MapDelete(allowedLog, key)
    /\ result' = Called("clear", key, Return(UNDEFINED))
    /\ UNCHANGED <<now, windowMs, maxAttempts, cleanupInterval>>
    /\ UNCHANGED <<guardVars, globalVars, detectorVars, channelVars, schemaCalls>>

\* The interval callback of ManagedRateLimiter.
Sweep ==
    /\ cleanupInterval
    /\ attempts' = CleanupOldEntries(attempts, now, windowMs)
    /\ result' = Called("cleanupOldEntries", UNDEFINED, Return(UNDEFINED))
    /\ UNCHANGED <<now, windowMs, maxAttempts, cleanupInterval, allowedLog, clearedKeys>>
    /\ UNCHANGED <<guardVars, globalVars, detectorVars, channelVars, schemaCalls>>

Destroy ==
    /\ cleanupInterval' = FALSE
    /\ result' = Called("destroy", UNDEFINED, Return(UNDEFINED))
    /\ UNCHANGED <<attempts, now, windowMs, maxAttempts, allowedLog, clearedKeys>>
    /\ UNCHANGED <<guardVars, globalVars, detectorVars, channelVars, schemaCalls>>

\* Time passes (the clock does not go back).
Tick ==
    /\ now < MaxClock
    /\ now' = now + 1
    /\ allowedLog' = LogPrune(allowedLog, now + 1, windowMs)
    /\ UNCHANGED <<attempts, windowMs, maxAttempts, cleanupInterval, clearedKeys, result>>
    /\ UNCHANGED <<guardVars, globalVars, detectorVars, channelVars, schemaCalls>>

InitLimiter ==
    /\ attempts = EmptyMap
    /\ now = 0
    /\ windowMs \in 2..MaxWindow
    /\ maxAttempts \in 1..MaxLimit
    /\ cleanupInterval = TRUE
    /\ allowedLog = EmptyMap
    /\ clearedKeys = {}
    /\ IdleGuard
    /\ hasWindow = FALSE /\ hasProcess = TRUE /\ hasEdgeRuntime = FALSE
    /\ IdleDetector
    /\ IdleChannel
    /\ schemaCalls = <<>>
    /\ result = NoCall

NextWindow ==
    \/ \E k \in LimiterKeys : IsAllowed(k)
    \/ Sweep
    \/ Tick

SpecWindow == InitLimiter /\ [][NextWindow]_vars

NextLimiter ==
    \/ \E k \in LimiterKeys : IsAllowed(k)
    \/ \E k \in LimiterKeys : Clear(k)
    \/ Sweep
    \/ Destroy
    \/ Tick

SpecLimiter == InitLimiter /\ [][NextLimiter]_vars

\* ------------------------------------------------------------------------
\* Guarded object in client context: operations
\* ------------------------------------------------------------------------
V_SECRET == <<"s","3","c","r","3","t">>
V_SECRET2 == <<"p","w">>
V_PUBLIC == <<"h","t","t","p">>
V_CHANGED == <<"n","e","w">>

\* The environments and server-key sets a guarded object is built over.
GuardConfigs ==
    { [env |-> <<Entry(K_PUB_A, V_PUBLIC)>>,
       serverKeys |-> {K_DB}],
      [env |-> <<Entry(K_PUB_A, V_PUBLIC), Entry(K_CTOR, V_SECRET2),
                 Entry(K_DB, V_SECRET)>>,
       serverKeys |-> {K_DB, K_CTOR}] }

\* The names read through the guarded object.
GuardProps == {K_DB, K_PUB_A, K_CTOR}

limiterFrame == <<now, windowMs, maxAttempts, cleanupInterval, allowedLog, clearedKeys>>

ProxyGet(prop) ==
    /\ result' = Called("get", prop,
                    SecureGetOutcome(env, serverKeys, namespace, attempts, now, prop))
    /\ attempts' = SecureGetAttempts(namespace, attempts, now, prop)
    /\ UNCHANGED limiterFrame
    /\ UNCHANGED <<guardVars, globalVars, detectorVars, channelVars, schemaCalls>>

ProxyHas(prop) ==
    /\ result' = Called("has", prop, Return(SecureHas(env, serverKeys, prop)))
    /\ UNCHANGED <<attempts, limiterFrame, guardVars>>
    /\ UNCHANGED <<globalVars, detectorVars, channelVars, schemaCalls>>

ProxyOwnKeys ==
    /\ result' = Called("ownKeys", UNDEFINED,
                    Return(GetClientKeys(cachedClientKeys, env, serverKeys)))
    /\ cachedClientKeys' = GetClientKeys(cachedClientKeys, env, serverKeys)
    /\ UNCHANGED <<attempts, limiterFrame, env, serverKeys, namespace, guarded>>
    /\ UNCHANGED <<globalVars, detectorVars, channelVars, schemaCalls>>

ProxyGetOwnPropertyDescriptor(prop) ==
    /\ result' = Called("getOwnPropertyDescriptor", prop,
                    Return(SecureGetOwnPropertyDescriptor(env, serverKeys, prop)))
    /\ UNCHANGED <<attempts, limiterFrame, guardVars>>
    /\ UNCHANGED <<globalVars, detectorVars, channelVars, schemaCalls>>

\* A guarded object exists: createSecureEnvProxy was called while isClient()
\* answered true, which leaves that answer in the detector's memo.
InitGuard ==
    /\ IdleLimiter
    /\ \E c \in GuardConfigs : env = c.env /\ serverKeys = c.serverKeys
    /\ namespace = UNDEFINED
    /\ cachedClientKeys = NULL
    /\ guarded = TRUE
    /\ hasWindow = TRUE /\ hasProcess = TRUE /\ hasEdgeRuntime = FALSE
    /\ cachedRuntime = None
    /\ cachedIsServer = None
    /\ cachedIsClient = Some(TRUE)
    /\ firstSeen = [NothingSeen EXCEPT !.isClient = Some(TRUE)]
    /\ IdleChannel
    /\ schemaCalls = <<>>
    /\ result = NoCall

NextGuard ==
    \/ \E p \in GuardProps : ProxyGet(p)
    \/ \E p \in GuardProps : ProxyHas(p)
    \/ ProxyOwnKeys
    \/ \E p \in GuardProps : ProxyGetOwnPropertyDescriptor(p)

SpecGuard == InitGuard /\ [][NextGuard]_vars

\* ------------------------------------------------------------------------
\* Guarded object in client context: properties
\* ------------------------------------------------------------------------
IsGetOfServerKey == result.op = "get" /\ result.arg \in serverKeys

\* C1: in client context a read of a name of the server-key set through
\* the guarded object never returns: it ends in a raised error, whatever
\* reads, enumerations and existence checks came before.
ThmC1_ServerReadNeverReturns ==
    IsGetOfServerKey => result.kind = "throw"

\* A server key the environment holds was read and refused, after the keys
\* were enumerated and a client key was read.
WitnessC1 ==
    /\ IsGetOfServerKey
    /\ ObjHas(env, result.arg)
    /\ result.kind = "throw"
    /\ cachedClientKeys # NULL
    /\ AccessKey(namespace, K_PUB_A) \in DOMAIN attempts

\* C2 as stated: every read of a server key raises EnvSecurityError naming
\* that key, whatever was read before.
OrigC2_AlwaysSecurityError ==
    IsGetOfServerKey =>
        /\ result.kind = "throw"
        /\ result.value.type = "EnvSecurityError"
        /\ Mentions(result.value.variableName, result.arg)

\* The rate limiter denies a read of prop: the name passes the sanitizer and
\* the limiter holds maxAttempts reads of it that are inside the window.
RateDenied(prop) ==
    /\ sanitizeEnvKey(prop).kind = "return"
    /\ Len(ValidAttempts(MapGet(attempts, AccessKey(namespace, prop)), now, windowMs))
          >= maxAttempts

\* C2 amended: a read of a server key raises EnvSecurityError naming that
\* key unless the rate limiter denies the read, in which case it raises the
\* plain rate-limit Error; no read of a server key returns.
ThmC2_SecurityErrorUnlessRateLimited ==
    [][\A p \in GuardProps :
         (p \in serverKeys /\ result'.op = "get" /\ result'.arg = p) =>
            /\ result'.kind = "throw"
            /\ IF RateDenied(p)
               THEN result'.value = RateLimitError(p)
               ELSE /\ result'.value.type = "EnvSecurityError"
                    /\ Mentions(result'.value.variableName, p)]_vars

\* The last read of a server key that the rate limiter still lets through:
\* it raised EnvSecurityError after ninety-nine earlier reads of the name.
WitnessC2 ==
    /\ IsGetOfServerKey
    /\ result.kind = "throw"
    /\ result.value.type = "EnvSecurityError"
    /\ Len(MapGet(attempts, AccessKey(namespace, result.arg))) = ValidationMaxAttempts

\* C3: in client context key enumeration never lists a name of the
\* server-key set, the existence check answers false for it and the
\* descriptor query answers undefined for it, also when the environment
\* holds the key.
ThmC3_IntrospectionHidesServerKeys ==
    /\ result.op = "ownKeys" =>
          \A i \in 1..Len(result.value) : result.value[i] \notin serverKeys
    /\ (result.op = "has" /\ result.arg \in serverKeys) => result.value = FALSE
    /\ (result.op = "getOwnPropertyDescriptor" /\ result.arg \in serverKeys) =>
          result.value = UNDEFINED
    /\ cachedClientKeys # NULL =>
          \A i \in 1..Len(cachedClientKeys) : cachedClientKeys[i] \notin serverKeys

\* The keys of an environment that holds a server key were enumerated,
\* after that key was read.
WitnessC3 ==
    /\ result.op = "ownKeys"
    /\ \E k \in serverKeys :
          /\ ObjHas(env, k)
          /\ AccessKey(namespace, k) \in DOMAIN attempts
    /\ Len(result.value) >= 1

\* ------------------------------------------------------------------------
\* Rate limiter: properties
\* ------------------------------------------------------------------------
\* C8: isAllowed(k) at time now returns true exactly when fewer than
\* maxAttempts earlier allowed calls for k have a timestamp t with
\* now - t < windowMs; an allowed call records now, a denied call records
\* nothing.
ThmC8_SlidingWindow ==
    [][\A k \in LimiterKeys :
         (result'.op = "isAllowed" /\ result'.arg = k /\ now' = now) =>
            /\ result'.value = (Len(MapGet(allowedLog, k)) < maxAttempts)
            /\ result'.value = TRUE =>
                  /\ k \in DOMAIN attempts'
                  /\ Len(attempts'[k]) >= 1
                  /\ attempts'[k][Len(attempts'[k])] = now
            /\ result'.value = FALSE => attempts' = attempts]_vars

\* A call was denied at the bound, the recorded calls of the key being of
\* different times, and the window has elapsed once since the start.
WitnessC8 ==
    /\ result.op = "isAllowed"
    /\ result.value = FALSE
    /\ now >= windowMs
    /\ Len(MapGet(allowedLog, result.arg)) = maxAttempts
    /\ \E i, j \in 1..Len(MapGet(attempts, result.arg)) :
          attempts[result.arg][i] # attempts[result.arg][j]

\* C9: the list stored for a key never holds more than maxAttempts
\* timestamps, and for a key never cleared the allowed calls of any one
\* window of length windowMs never number more than maxAttempts.
ThmC9_BoundedWindow ==
    /\ \A k \in DOMAIN attempts : Len(attempts[k]) <= maxAttempts
    /\ \A k \in DOMAIN allowedLog :
          /\ Len(allowedLog[k]) <= maxAttempts
          /\ \A i \in 1..Len(allowedLog[k]) : now - allowedLog[k][i] < windowMs

\* A key never cleared is at its bound after the window has elapsed, while
\* the other key was cleared.
WitnessC9 ==
    /\ clearedKeys # {}
    /\ now >= windowMs
    /\ \E k \in DOMAIN allowedLog :
          /\ Len(allowedLog[k]) = maxAttempts
          /\ Len(MapGet(attempts, k)) = maxAttempts
    /\ result.op = "cleanupOldEntries"

\* ------------------------------------------------------------------------
\* Execution-context detector: operations
\* ------------------------------------------------------------------------
notDetector == <<limiterVars, guardVars, channelVars, schemaCalls>>

Remember(seen, v) == IF IsNone(seen) THEN Some(v) ELSE seen

DetectRuntime ==
    /\ result' = Called("detectRuntime", UNDEFINED,
                    Return(DetectRuntimeValue(cachedRuntime, hasWindow, hasProcess,
                                              hasEdgeRuntime)))
    /\ cachedRuntime' = Some(DetectRuntimeValue(cachedRuntime, hasWindow, hasProcess,
                                                hasEdgeRuntime))
    /\ firstSeen' = [firstSeen EXCEPT !.detectRuntime =
                        Remember(@, DetectRuntimeValue(cachedRuntime, hasWindow,
                                                       hasProcess, hasEdgeRuntime))]
    /\ UNCHANGED <<cachedIsServer, cachedIsClient, globalVars, notDetector>>

IsServer ==
    /\ result' = Called("isServer", UNDEFINED,
                    Return(IsServerValue(cachedIsServer, hasWindow)))
    /\ cachedIsServer' = Some(IsServerValue(cachedIsServer, hasWindow))
    /\ firstSeen' = [firstSeen EXCEPT !.isServer =
                        Remember(@, IsServerValue(cachedIsServer, hasWindow))]
    /\ UNCHANGED <<cachedRuntime, cachedIsClient, globalVars, notDetector>>

IsClient ==
    /\ result' = Called("isClient", UNDEFINED,
                    Return(IsClientValue(cachedIsClient, hasWindow)))
    /\ cachedIsClient' = Some(IsClientValue(cachedIsClient, hasWindow))
    /\ firstSeen' = [firstSeen EXCEPT !.isClient =
                        Remember(@, IsClientValue(cachedIsClient, hasWindow))]
    /\ UNCHANGED <<cachedRuntime, cachedIsServer, globalVars, notDetector>>

ResetRuntimeCache ==
    /\ cachedRuntime' = None
    /\ cachedIsServer' = None
    /\ cachedIsClient' = None
    /\ firstSeen' = NothingSeen
    /\ result' = Called("resetRuntimeCache", UNDEFINED, Return(UNDEFINED))
    /\ UNCHANGED <<globalVars, notDetector>>

\* The ambient globals change (a test installs or removes window, ...).
SetGlobals(win, proc, edge) ==
    /\ <<win, proc, edge>> # <<hasWindow, hasProcess, hasEdgeRuntime>>
    /\ hasWindow' = win
    /\ hasProcess' = proc
    /\ hasEdgeRuntime' = edge
    /\ UNCHANGED <<detectorVars, notDetector, result>>

InitDetector ==
    /\ IdleLimiter
    /\ IdleGuard
    /\ hasWindow \in BOOLEAN /\ hasProcess \in BOOLEAN /\ hasEdgeRuntime \in BOOLEAN
    /\ IdleDetector
    /\ IdleChannel
    /\ schemaCalls = <<>>
    /\ result = NoCall

NextDetector ==
    \/ DetectRuntime
    \/ IsServer
    \/ IsClient
    \/ ResetRuntimeCache
    \/ \E win, proc, edge \in BOOLEAN : SetGlobals(win, proc, edge)

SpecDetector == InitDetector /\ [][NextDetector]_vars

\* ------------------------------------------------------------------------
\* Execution-context detector: properties
\* ------------------------------------------------------------------------
\* The context the ambient globals stand for.
ContextOfGlobals ==
    [isServer |-> ~hasWindow /\ hasProcess,
     isClient |-> hasWindow,
     isEdgeRuntime |-> ~hasWindow /\ hasProcess /\ hasEdgeRuntime]

\* C10: between two resets every call of detectRuntime returns the result
\* of its first call, and so do isClient and isServer, however the ambient
\* globals change in between; the first call after a reset computes its
\* result from the globals present at that moment.
ThmC10_MemoUntilReset ==
    [][/\ (result'.op = "detectRuntime" /\ UNCHANGED globalVars) =>
            result'.value = IF IsNone(firstSeen.detectRuntime)
                            THEN ContextOfGlobals
                            ELSE firstSeen.detectRuntime[1]
       /\ (result'.op = "isClient" /\ UNCHANGED globalVars) =>
            result'.value = IF IsNone(firstSeen.isClient)
                            THEN hasWindow
                            ELSE firstSeen.isClient[1]
       /\ (result'.op = "isServer" /\ UNCHANGED globalVars) =>
            result'.value = IF IsNone(firstSeen.isServer)
                            THEN ~hasWindow
                            ELSE firstSeen.isServer[1]]_vars

\* detectRuntime answered from its memo although the globals now stand for
\* another context; isClient, first called after the globals changed, holds
\* another answer.
WitnessC10 ==
    /\ result.op = "detectRuntime"
    /\ result.value # ContextOfGlobals
    /\ ~IsNone(firstSeen.isClient)
    /\ firstSeen.isClient[1] # firstSeen.detectRuntime[1].isClient

\* ------------------------------------------------------------------------
\* The validators, called on their own
\* ------------------------------------------------------------------------
MaxFields == 2

FieldNameSeq == <<K_DB, K_ONE, K_PUB_A>>
FieldNames == {FieldNameSeq[i] : i \in 1..Len(FieldNameSeq)}
FieldValues == {<<>>, V_PUBLIC}

DistinctKeys(o) == \A i, j \in 1..Len(o) : i # j => o[i].key # o[j].key

\* The object literals of at most n entries over the given keys and values
Objects(keys, values, n) ==
    UNION { {o \in [1..m -> [key : keys, value : values]] : DistinctKeys(o)} : m \in 0..n }

\* The environments: each name absent or set to one of the values
EnvOf(f) ==
    SelectSeq([i \in 1..Len(FieldNameSeq) |-> Entry(FieldNameSeq[i], f[FieldNameSeq[i]])],
              LAMBDA en : en.value # UNDEFINED)

RuntimeEnvs == {EnvOf(f) : f \in [FieldNames -> FieldValues \cup {UNDEFINED}]}

\* The client groups whose names are checked
ClientNames == {K_API, K_ONE, K_PUB_A, K_PUB_B, K_SPACE, K_CTOR}

otherVars == <<limiterVars, guardVars, globalVars, detectorVars, channelVars>>

\* The validators keep no state: a behaviour is one call on one input.
CallValidateEnv(schema, runtimeEnv) ==
    LET r == validateEnv(schema, runtimeEnv)
    IN  /\ result.op = "none"
        /\ result' = Called("validateEnv",
                            [schema |-> schema, runtimeEnv |-> runtimeEnv],
                            ReturnedObject(r.outcome))
        /\ schemaCalls' = r.calls
        /\ UNCHANGED otherVars

CallValidateClientVariableNames(clientSchema) ==
    /\ result.op = "none"
    /\ result' = Called("validateClientVariableNames", clientSchema,
                        validateClientVariableNames(clientSchema))
    /\ schemaCalls' = <<>>
    /\ UNCHANGED otherVars

InitValidate ==
    /\ IdleLimiter
    /\ IdleGuard
    /\ hasWindow = FALSE /\ hasProcess = TRUE /\ hasEdgeRuntime = FALSE
    /\ IdleDetector
    /\ IdleChannel
    /\ schemaCalls = <<>>
    /\ result = NoCall

NextValidate ==
    \/ \E schema \in Objects(FieldNames, SchemaKinds, MaxFields) :
         \E runtimeEnv \in RuntimeEnvs : CallValidateEnv(schema, runtimeEnv)
    \/ \E clientSchema \in Objects(ClientNames, {"string"}, MaxFields) :
         CallValidateClientVariableNames(clientSchema)

SpecValidate == InitValidate /\ [][NextValidate]_vars

\* The fields of a group that are invalid against an environment: the schema
\* rejects the value or throws.
DeclaredKeys(schema) == {schema[i].key : i \in 1..Len(schema)}

InvalidKeys(schema, runtimeEnv) ==
    {k \in DeclaredKeys(schema) :
        SafeParse(ObjGet(schema, k), Lookup(runtimeEnv, k)).status # "success"}

DeclPos(o, k) == CHOOSE i \in 1..Len(o) : o[i].key = k

\* a comes before b in declaration order
DeclaredBefore(o, a, b) == DeclPos(o, a) < DeclPos(o, b)

\* a comes before b in the order of the own keys: the canonical array
\* indices ascending, then the other names in declaration order
ListedBefore(o, a, b) ==
    IF IsArrayIndex(a) /\ IsArrayIndex(b) THEN NumVal(a) < NumVal(b)
    ELSE IF IsArrayIndex(a) # IsArrayIndex(b) THEN IsArrayIndex(a)
    ELSE DeclaredBefore(o, a, b)

\* Every field evaluated exactly once on its raw value; k >= 1 invalid fields
\* give one EnvValidationError with exactly k entries carrying key and raw
\* value; none gives a result over exactly the declared keys.
ValidateEnvCollects ==
    LET schema == result.arg.schema
        runtimeEnv == result.arg.runtimeEnv
        invalid == InvalidKeys(schema, runtimeEnv)
    IN  /\ Len(schemaCalls) = Len(schema)
        /\ {schemaCalls[i].key : i \in 1..Len(schemaCalls)} = DeclaredKeys(schema)
        /\ \A i \in 1..Len(schemaCalls) :
              schemaCalls[i].value = Lookup(runtimeEnv, schemaCalls[i].key)
        /\ invalid # {} =>
              /\ result.kind = "throw"
              /\ result.value.type = "EnvValidationError"
              /\ Len(result.value.errors) = Cardinality(invalid)
              /\ {result.value.errors[i].key : i \in 1..Len(result.value.errors)} = invalid
              /\ \A i \in 1..Len(result.value.errors) :
                    result.value.errors[i].received
                        = Lookup(runtimeEnv, result.value.errors[i].key)
        /\ invalid = {} =>
              /\ result.kind = "return"
              /\ DeclaredKeys(result.value.values) = DeclaredKeys(schema)
              /\ Len(result.value.values) = Len(schema)

\* The evaluations and the error entries follow the order Before.
ValidateEnvOrdered(Before(_, _, _)) ==
    LET schema == result.arg.schema
    IN  /\ \A i, j \in 1..Len(schemaCalls) :
              i < j => Before(schema, schemaCalls[i].key, schemaCalls[j].key)
        /\ result.kind = "throw" =>
              \A i, j \in 1..Len(result.value.errors) :
                  i < j => Before(schema, result.value.errors[i].key,
                                  result.value.errors[j].key)

\* C4 as stated: validateEnv evaluates every field exactly once in
\* declaration order without stopping at a failure; k >= 1 invalid fields
\* give one EnvValidationError with exactly k entries in declaration order,
\* each with key and raw value; k = 0 gives a result over exactly the
\* schema's keys.
OrigC4_DeclarationOrder ==
    result.op = "validateEnv" =>
        ValidateEnvCollects /\ ValidateEnvOrdered(DeclaredBefore)

\* C4, amended: as stated, with the order of evaluation and of the entries
\* being the own-key order of the schema object (canonical array-index names
\* first, ascending, then the other names in declaration order).
ThmC4_CollectsAllInKeyOrder ==
    result.op = "validateEnv" =>
        ValidateEnvCollects /\ ValidateEnvOrdered(ListedBefore)

\* validateEnv met two invalid fields, one whose schema threw and one whose
\* schema rejected, the index-like name declared last and listed first.
WitnessC4 ==
    /\ result.op = "validateEnv"
    /\ result.kind = "throw"
    /\ Len(result.value.errors) = 2
    /\ result.value.errors[1].key = K_ONE
    /\ DeclPos(result.arg.schema, K_ONE) = 2
    /\ \E i \in 1..2 : ObjGet(result.arg.schema, result.value.errors[i].key) = "throws"
    /\ \E i \in 1..2 : ObjGet(result.arg.schema, result.value.errors[i].key) = "min1"

\* ------------------------------------------------------------------------
\* createEnv and getClientEnv, called in an ambient context
\* ------------------------------------------------------------------------
NS_APP == <<"a","p","p">>
NS_BLANK == <<" ">>

ServerGroups ==
    { <<>>,
      <<Entry(K_DB, "min1")>>,
      <<Entry(K_DB, "min1"), Entry(K_KEY, "min1")>> }

ClientGroups ==
    { <<>>,
      <<Entry(K_PUB_A, "min1")>>,
      <<Entry(K_API, "min1")>>,
      <<Entry(K_API, "min1"), Entry(K_ONE, "min1")>>,
      <<Entry(K_PUB_A, "min1"), Entry(K_PUB_B, "min1")>> }

RawEnvs ==
    { JsText,
      JsObject(<<>>),
      JsObject(<<Entry(K_PUB_A, V_PUBLIC)>>),
      JsObject(<<Entry(K_DB, V_SECRET), Entry(K_PUB_A, V_PUBLIC),
                 Entry(K_PUB_B, V_PUBLIC)>>) }

\* The configurations: every pairing of the groups with a raw environment
\* under the default adapter, the namespaces validateConfig refuses, and
\* the adapters a caller may pass in.
Configs ==
    [server : ServerGroups, client : ClientGroups, runtimeEnv : RawEnvs,
     skipValidation : BOOLEAN, namespace : {UNDEFINED, NS_APP},
     runtimeAdapter : {"none"}]
    \cup [server : {<<Entry(K_DB, "min1")>>}, client : ClientGroups,
          runtimeEnv : {JsObject(<<Entry(K_PUB_A, V_PUBLIC)>>)},
          skipValidation : {FALSE}, namespace : {NON_STRING, NS_BLANK},
          runtimeAdapter : {"none"}]
    \cup [server : {<<>>, <<Entry(K_DB, "min1")>>}, client : ClientGroups,
          runtimeEnv : {JsObject(<<>>), JsObject(<<Entry(K_PUB_A, V_PUBLIC)>>)},
          skipValidation : {FALSE}, namespace : {UNDEFINED},
          runtimeAdapter : {"client", "server"}]

ClientEnvCalls ==
    [schema : ClientGroups, runtimeEnv : (RawEnvs \ {JsText}) \cup {JsUndefined},
     skipValidation : BOOLEAN, namespace : {UNDEFINED, NS_APP}]

\* What the page may hold at the channel keys
Payloads ==
    {EmptyMap}
    \cup {[k \in {ChannelKey(UNDEFINED)} |-> Defined(p)] :
            p \in {JsNull, JsArray, JsObject(<<>>),
                   JsObject(<<Entry(K_PUB_A, V_PUBLIC)>>),
                   JsObject(<<Entry(K_DB, V_SECRET2), Entry(K_PUB_A, V_PUBLIC)>>)}}
    \cup {[k \in {ChannelKey(NS_APP)} |-> Defined(JsObject(<<Entry(K_PUB_A, V_PUBLIC)>>))]}

\* The ambient globals: a server, an edge sandbox, a browser
Contexts == {<<FALSE, TRUE, FALSE>>, <<FALSE, TRUE, TRUE>>, <<TRUE, TRUE, FALSE>>}

createFrame == <<limiterVars, globalVars, windowEnv, nodeEnv, clientProxyVars, rendered,
                 retryVars, cachedRuntime, cachedIsServer>>

\* A behaviour is one call in one ambient context; the memo of isClient()
\* is left by earlier calls and need not agree with the globals.
\* The state createEnv leaves, r being what it computed and built telling
\* that a guarded proxy was made
CreateEnvDone(config, r, built) ==
    /\ result.op = "none"
    /\ result' = Called("createEnv", config, r.outcome)
    /\ schemaCalls' = r.calls
    /\ cachedIsClient' = r.memo
    /\ firstSeen' = IF IsNone(r.memo) THEN firstSeen
                    ELSE [firstSeen EXCEPT !.isClient = Remember(@, r.memo[1])]
    /\ env' = IF built THEN r.outcome.value.env ELSE env
    /\ serverKeys' = IF built THEN r.outcome.value.serverKeys ELSE serverKeys
    /\ namespace' = IF built THEN r.outcome.value.namespace ELSE namespace
    /\ guarded' = (built \/ guarded)
    /\ tamperWarned' = IF IsNone(r.warned) THEN tamperWarned ELSE r.warned[1]
    /\ UNCHANGED <<cachedClientKeys, createFrame>>

CreateEnvSettled(config, r) ==
    CreateEnvDone(config, r, r.outcome.kind = "return" /\ r.outcome.value.guarded)

CallCreateEnv(config) ==
    CreateEnvSettled(config,
        createEnv(config, cachedIsClient, hasWindow, hasProcess, hasEdgeRuntime,
                  windowEnv, nodeEnv))

CallGetClientEnv(call) ==
    LET client == IsClientValue(cachedIsClient, hasWindow)
        r == getClientEnv(call.schema, call.runtimeEnv, call.skipValidation,
                          call.namespace, client, hasWindow, windowEnv, nodeEnv)
    IN  /\ result.op = "none"
        /\ result' = Called("getClientEnv", call, ReturnedObject(r.outcome))
        /\ schemaCalls' = r.calls
        /\ cachedIsClient' = Some(client)
        /\ firstSeen' = [firstSeen EXCEPT !.isClient = Remember(@, client)]
        /\ tamperWarned' = r.warned
        /\ UNCHANGED <<guardVars, limiterVars, globalVars, windowEnv, nodeEnv,
                       clientProxyVars, rendered, retryVars, cachedRuntime, cachedIsServer>>

InitCreate ==
    /\ IdleLimiter
    /\ IdleGuard
    /\ \E context \in Contexts :
          hasWindow = context[1] /\ hasProcess = context[2] /\ hasEdgeRuntime = context[3]
    /\ cachedRuntime = None
    /\ cachedIsServer = None
    /\ cachedIsClient \in {None, Some(TRUE), Some(FALSE)}
    /\ firstSeen = [NothingSeen EXCEPT !.isClient = cachedIsClient]
    /\ windowEnv \in Payloads
    /\ nodeEnv \in {"production", "development"}
    /\ IdleClientProxy
    /\ schemaCalls = <<>>
    /\ result = NoCall

NextCreate ==
    \/ \E config \in Configs : CallCreateEnv(config)
    \/ \E call \in ClientEnvCalls : CallGetClientEnv(call)

SpecCreate == InitCreate /\ [][NextCreate]_vars

\* The names of the entries of an EnvValidationError
ErrorKeys(error) == {error.errors[i].key : i \in 1..Len(error.errors)}

\* createEnv ran on a server-side adapter: both groups are validated
\* against config.runtimeEnv.
OnServerAdapter(config) ==
    \/ config.runtimeAdapter = "server"
    \/ config.runtimeAdapter = "none" /\ ~hasWindow

\* C5: when createEnv fails with a validation error, every invalid field of
\* the server group and every invalid field of the client group appears in
\* the one error raised.
OrigC5_AllInvalidFieldsInOneError ==
    (/\ result.op = "createEnv"
     /\ result.kind = "throw"
     /\ result.value.type = "EnvValidationError"
     /\ OnServerAdapter(result.arg))
    => LET raw == result.arg.runtimeEnv.obj
       IN  InvalidKeys(result.arg.server, raw) \cup InvalidKeys(result.arg.client, raw)
               \subseteq ErrorKeys(result.value)

\* A client field name is offending: the key sanitizer rejects it or it
\* lacks the NEXT_PUBLIC_ prefix.
Offending(group) ==
    {k \in DeclaredKeys(group) :
        sanitizeEnvKey(k).kind = "throw" \/ ~StartsWith(k, NEXT_PUBLIC)}

FirstOffending(Before(_, _, _), group) ==
    CHOOSE k \in Offending(group) :
        \A o \in Offending(group) \ {k} : Before(group, k, o)

\* The error names the name and no other offending name of the group.
NamesOnly(error, name, group) ==
    /\ Mentions(error.message, name)
    /\ \A o \in Offending(group) \ {name} : ~Mentions(error.message, o)

IsPrefixError == result.kind = "throw" /\ result.value.type = "EnvClientPrefixError"

PrefixErrorFirst(Before(_, _, _)) ==
    LET group == result.arg.client
    IN  /\ Offending(group) # {} =>
              /\ IsPrefixError
              /\ NamesOnly(result.value, FirstOffending(Before, group), group)
              /\ schemaCalls = <<>>
        /\ Offending(group) = {} => ~IsPrefixError

\* validateConfig accepts the configuration: the namespace is undefined or
\* a string of letters, digits, underscores and hyphens, and runtimeEnv is
\* an object.
ConfigAccepted(config) ==
    /\ config.runtimeEnv.type = "object"
    /\ \/ config.namespace = UNDEFINED
       \/ IsJsString(config.namespace) /\ MatchesNamespacePattern(config.namespace)

\* C6 as stated: createEnv with a non-empty client group fails with
\* EnvClientPrefixError when some client name is offending; the error names
\* the first offending name in declaration order and no field schema was
\* invoked; with no offending name no EnvClientPrefixError is raised.
OrigC6_FirstInDeclarationOrder ==
    (result.op = "createEnv" /\ Len(result.arg.client) > 0)
    => PrefixErrorFirst(DeclaredBefore)

\* C6, amended: for a configuration that validateConfig accepts, and with
\* the first offending name taken in the own-key order of the client group
\* (canonical array-index names first, ascending, then declaration order).
ThmC6_PrefixErrorFirstInKeyOrder ==
    (/\ result.op = "createEnv"
     /\ Len(result.arg.client) > 0
     /\ ConfigAccepted(result.arg))
    => PrefixErrorFirst(ListedBefore)

\* createEnv with server fields and the client names API and 1 failed with
\* the prefix error naming 1, no schema having been invoked.
WitnessC6 ==
    /\ result.op = "createEnv"
    /\ ConfigAccepted(result.arg)
    /\ Len(result.arg.server) > 0
    /\ ~result.arg.skipValidation
    /\ Offending(result.arg.client) = {K_API, K_ONE}
    /\ IsPrefixError
    /\ Mentions(result.value.message, K_ONE)
    /\ schemaCalls = <<>>

\* window[channel key], as the call found it
PayloadAt(ns) ==
    IF hasWindow THEN WindowValue(windowEnv, ChannelKey(ns)) ELSE JsUndefined

\* C7: in client context in production mode, with the payload at the
\* channel key absent, null or not a plain object, getClientEnv for a
\* non-empty schema with skipValidation false fails with
\* EnvNotInitializedError, whatever raw environment is passed as fallback.
OrigC7_NotInitializedWithoutPayload ==
    (/\ result.op = "getClientEnv"
     /\ hasWindow
     /\ cachedIsClient = Some(TRUE)
     /\ nodeEnv = "production"
     /\ PayloadAt(result.arg.namespace).type # "object"
     /\ Len(result.arg.schema) > 0
     /\ ~result.arg.skipValidation)
    => (result.kind = "throw" /\ result.value.type = "EnvNotInitializedError")

\* ------------------------------------------------------------------------
\* createSecureEnvProxy in either context: operations
\* ------------------------------------------------------------------------
\* Reads through one guarded object that the model follows
MaxGuardedReads == 2

\* A property read on a plain object: target[prop]
PlainGet(target, prop) == Return(Lookup(target, prop))

\* createSecureEnvProxy(env, serverKeys, namespace) over the environment at
\* hand, in the context of the moment
CreateSecureEnvProxy ==
    /\ guarded' = createSecureEnvProxy(cachedIsClient, hasWindow)
    /\ cachedClientKeys' = NULL
    /\ cachedIsClient' = Some(IsClientValue(cachedIsClient, hasWindow))
    /\ firstSeen' = [firstSeen EXCEPT !.isClient =
                        Remember(@, IsClientValue(cachedIsClient, hasWindow))]
    /\ result' = Called("createSecureEnvProxy", UNDEFINED,
                        Return([client |-> IsClientValue(cachedIsClient, hasWindow)]))
    /\ UNCHANGED <<env, serverKeys, namespace, limiterVars, globalVars,
                   cachedRuntime, cachedIsServer, channelVars, schemaCalls>>

\* env[prop] on what createSecureEnvProxy returned
EnvGet(prop) ==
    /\ guarded => Len(MapGet(attempts, AccessKey(namespace, prop))) < MaxGuardedReads
    /\ result' = Called("get", prop,
                    IF guarded
                    THEN SecureGetOutcome(env, serverKeys, namespace, attempts, now, prop)
                    ELSE PlainGet(env, prop))
    /\ attempts' = IF guarded THEN SecureGetAttempts(namespace, attempts, now, prop)
                   ELSE attempts
    /\ UNCHANGED limiterFrame
    /\ UNCHANGED <<guardVars, globalVars, detectorVars, channelVars, schemaCalls>>

InitProxy ==
    /\ IdleLimiter
    /\ \E c \in GuardConfigs : env = c.env /\ serverKeys = c.serverKeys
    /\ namespace = UNDEFINED
    /\ cachedClientKeys = NULL
    /\ hasWindow \in BOOLEAN /\ hasProcess = TRUE /\ hasEdgeRuntime = FALSE
    /\ guarded = hasWindow
    /\ cachedRuntime = None
    /\ cachedIsServer = None
    /\ cachedIsClient = Some(hasWindow)
    /\ firstSeen = [NothingSeen EXCEPT !.isClient = Some(hasWindow)]
    /\ IdleChannel
    /\ schemaCalls = <<>>
    /\ result = NoCall

NextProxy ==
    \/ CreateSecureEnvProxy
    \/ \E p \in GuardProps : EnvGet(p)
    \/ ResetRuntimeCache
    \/ \E win \in BOOLEAN : SetGlobals(win, TRUE, FALSE)

SpecProxy == InitProxy /\ [][NextProxy]_vars

\* ------------------------------------------------------------------------
\* createSecureEnvProxy in either context: properties
\* ------------------------------------------------------------------------
\* C11: in a non-client context createSecureEnvProxy returns the merged
\* environment itself, and every read of it, server keys included, returns
\* the original value with no sanitizer, rate-limit or server-key check: the
\* read returns what the environment holds and leaves the limiter alone.
ThmC11_ServerContextUnguarded ==
    [][/\ (result'.op = "createSecureEnvProxy" /\ ~result'.value.client) => ~guarded'
       /\ (result'.op = "get" /\ ~guarded') =>
             /\ result'.kind = "return"
             /\ result'.value = Lookup(env', result'.arg)
             /\ attempts' = attempts]_vars

\* A server key whose read raised through the guarded object (the limiter
\* holds that read) returns its value through the object rebuilt over the
\* same environment in server context.
WitnessC11 ==
    /\ result.op = "get" /\ ~guarded
    /\ result.arg = K_DB /\ K_DB \in serverKeys
    /\ result.kind = "return" /\ result.value = V_SECRET
    /\ Len(MapGet(attempts, AccessKey(namespace, K_DB))) > 0

\* ------------------------------------------------------------------------
\* The runtime adapters, called on their own
\* ------------------------------------------------------------------------
AdapterNames == {K_DB, K_CTOR, K_PUB_A}

AdapterSchemas == Objects(AdapterNames, {"min1", "optional", "throws"}, MaxFields)

AdapterEnvs ==
    { <<>>,
      <<Entry(K_DB, V_SECRET)>>,
      <<Entry(K_DB, <<>>), Entry(K_PUB_A, V_PUBLIC)>>,
      <<Entry(K_CTOR, V_SECRET2), Entry(K_DB, V_SECRET)>> }

AdapterCalls ==
    [adapter : {"server", "edge", "client"}, schema : AdapterSchemas,
     runtimeEnv : AdapterEnvs, skipValidation : BOOLEAN]

\* adapter.validateServerEnv(schema, runtimeEnv, skipValidation)
CallValidateServerEnv(call) ==
    LET r == validateServerEnv(call.adapter, call.schema, call.runtimeEnv,
                               call.skipValidation)
    IN  /\ result.op = "none"
        /\ result' = Called("validateServerEnv", call, ReturnedObject(r.outcome))
        /\ schemaCalls' = r.calls
        /\ UNCHANGED otherVars

\* adapter.validateClientEnv(schema, runtimeEnv, skipValidation) of the
\* server and edge adapters
CallValidateClientEnv(call) ==
    LET r == AdapterValidate(call.schema, call.runtimeEnv, call.skipValidation)
    IN  /\ result.op = "none"
        /\ call.adapter # "client"
        /\ result' = Called("validateClientEnv", call, ReturnedObject(r.outcome))
        /\ schemaCalls' = r.calls
        /\ UNCHANGED otherVars

NextAdapter ==
    \/ \E call \in AdapterCalls : CallValidateServerEnv(call)
    \/ \E call \in AdapterCalls : CallValidateClientEnv(call)

SpecAdapter == InitValidate /\ [][NextAdapter]_vars

IsServerSideCall ==
    /\ result.op \in {"validateServerEnv", "validateClientEnv"}
    /\ result.arg.adapter \in {"server", "edge"}

\* A field whose schema requires a value and whose name the raw environment
\* does not hold
RequiredAbsent(schema, runtimeEnv) ==
    \E i \in 1..Len(schema) : schema[i].value = "min1" /\ ~ObjHas(runtimeEnv, schema[i].key)

\* With skipValidation the server and edge adapters invoke no schema and
\* return the schema's names mapped by Raw; without it a required absent
\* field raises EnvValidationError.
SkipValidationMaps(Raw(_, _)) ==
    IsServerSideCall =>
        /\ result.arg.skipValidation =>
              /\ schemaCalls = <<>>
              /\ result.kind = "return"
              /\ DeclaredKeys(result.value.values) = DeclaredKeys(result.arg.schema)
              /\ Len(result.value.values) = Len(result.arg.schema)
              /\ \A k \in DeclaredKeys(result.arg.schema) :
                    ObjGet(result.value.values, k) = Raw(result.arg.runtimeEnv, k)
        /\ (~result.arg.skipValidation
               /\ RequiredAbsent(result.arg.schema, result.arg.runtimeEnv)) =>
              /\ result.kind = "throw"
              /\ result.value.type = "EnvValidationError"

\* The value of an own key, undefined for every other name
OwnOrUndefined(o, k) == IF ObjHas(o, k) THEN ObjGet(o, k) ELSE UNDEFINED

\* C12 as stated: with skipValidation true the server and edge adapters
\* invoke no schema, never raise and map exactly the schema's names to the
\* raw values, undefined for an absent key; with skipValidation false a
\* required absent field raises EnvValidationError.
OrigC12_UndefinedWhenAbsent == SkipValidationMaps(OwnOrUndefined)

\* C12, amended: as stated, the value of a name being what the lookup
\* runtimeEnv[name] gives: the own value, undefined for a name the raw
\* environment neither holds nor inherits, the inherited member for a name
\* such as constructor.
ThmC12_SkipValidationMapsLookup == SkipValidationMaps(Lookup)

\* The same schema with a required field absent, skipValidation on: the
\* field comes back undefined beside an inherited name.
WitnessC12 ==
    /\ IsServerSideCall /\ result.arg.skipValidation
    /\ result.arg.runtimeEnv = <<>>
    /\ Len(result.arg.schema) = 2
    /\ ObjHas(result.arg.schema, K_DB) /\ ObjGet(result.arg.schema, K_DB) = "min1"
    /\ ObjGet(result.value.values, K_DB) = UNDEFINED
    /\ ObjHas(result.arg.schema, K_CTOR)
    /\ ObjGet(result.value.values, K_CTOR) = INHERITED

\* ------------------------------------------------------------------------
\* sanitizeEnvKey, called on its own
\* ------------------------------------------------------------------------
\* Length of the generated names
MaxKeyLen == 3

KeyAlphabet == {"a", "Z", "_", "-", "1", " ", "$"}

K_GOOD == <<"G","O","O","D","_","N","A","M","E","-","1">>
K_DIGITS_FIRST == <<"1","2","3","b","a","d">>
K_HAS_SPACE == <<"h","a","s"," ","s","p","a","c","e">>

\* Every string over the alphabet up to the length, and the names of the
\* documented cases
SanitizerKeys ==
    UNION {[1..n -> KeyAlphabet] : n \in 0..MaxKeyLen}
    \cup {K_GOOD, K_DIGITS_FIRST, K_HAS_SPACE, K_PROTO, K_CTOR, K_PROTOTYPE,
          K_PUB_A, K_HYPHEN}

\* A returned string is recorded under the field key.
ReturnedKey(outcome) ==
    IF outcome.kind = "return" THEN Return([key |-> outcome.value]) ELSE outcome

\* sanitizeEnvKey(key)
CallSanitizeEnvKey(key) ==
    /\ result.op = "none"
    /\ result' = Called("sanitizeEnvKey", [key |-> key, pass |-> 1],
                        ReturnedKey(sanitizeEnvKey(key)))
    /\ UNCHANGED <<otherVars, schemaCalls>>

\* sanitizeEnvKey applied to the string it has just returned
CallSanitizeEnvKeyAgain ==
    /\ result.op = "sanitizeEnvKey" /\ result.kind = "return" /\ result.arg.pass = 1
    /\ result' = Called("sanitizeEnvKey", [key |-> result.value.key, pass |-> 2],
                        ReturnedKey(sanitizeEnvKey(result.value.key)))
    /\ UNCHANGED <<otherVars, schemaCalls>>

InitSanitize == InitValidate

NextSanitize ==
    \/ \E key \in SanitizerKeys : CallSanitizeEnvKey(key)
    \/ CallSanitizeEnvKeyAgain

SpecSanitize == InitSanitize /\ [][NextSanitize]_vars

IsLetter(c) == c \in LowerCase \cup UpperCase
IsNameChar(c) == IsLetter(c) \/ c \in DigitChars \/ c = "_" \/ c = "-"

\* The names the claim lets through
IsCleanName(key) ==
    /\ key # <<>>
    /\ IsLetter(Head(key)) \/ Head(key) = "_"
    /\ \A i \in DOMAIN Tail(key) : IsNameChar(Tail(key)[i])
    /\ key \notin {K_PROTO, K_CTOR, K_PROTOTYPE}

\* C13: sanitizeEnvKey returns its argument unchanged exactly for the names
\* that start with a letter or underscore, continue with letters, digits,
\* underscores and hyphens and are none of __proto__, constructor,
\* prototype; every other string fails; applied to its own result it gives
\* the same result.
ThmC13_SanitizerAcceptsExactlyCleanNames ==
    result.op = "sanitizeEnvKey" =>
        /\ IsCleanName(result.arg.key) =>
              (result.kind = "return" /\ result.value.key = result.arg.key)
        /\ ~IsCleanName(result.arg.key) => result.kind = "throw"
        /\ result.arg.pass = 2 =>
              (result.kind = "return" /\ result.value.key = result.arg.key)

\* GOOD_NAME-1 went through the sanitizer twice and came back unchanged.
WitnessC13 ==
    /\ result.op = "sanitizeEnvKey" /\ result.arg.pass = 2
    /\ result.kind = "return" /\ result.value.key = K_GOOD

\* ------------------------------------------------------------------------
\* The client adapter in a browser
\* ------------------------------------------------------------------------
ClientAdapterCalls == {call \in AdapterCalls : call.adapter = "client"}

BrowserConfigs == {config \in Configs : config.runtimeAdapter # "server"}

InitBrowser ==
    /\ IdleLimiter
    /\ IdleGuard
    /\ hasWindow = TRUE /\ hasProcess = TRUE /\ hasEdgeRuntime = FALSE
    /\ cachedRuntime = None
    /\ cachedIsServer = None
    /\ cachedIsClient \in {None, Some(TRUE)}
    /\ firstSeen = [NothingSeen EXCEPT !.isClient = cachedIsClient]
    /\ windowEnv \in Payloads
    /\ nodeEnv \in {"production", "development"}
    /\ IdleClientProxy
    /\ schemaCalls = <<>>
    /\ result = NoCall

NextBrowser ==
    \/ \E call \in ClientAdapterCalls : CallValidateServerEnv(call)
    \/ \E config \in BrowserConfigs : CallCreateEnv(config)

SpecBrowser == InitBrowser /\ [][NextBrowser]_vars

\* C14: the client adapter's validateServerEnv returns an empty environment
\* whatever the schema, the raw environment and skipValidation, and invokes
\* no schema; the merged environment createEnv builds with the client
\* adapter holds no value taken from the server group: no schema of the
\* server group is invoked, and a server name it holds carries the value
\* the injection payload gives it.
ThmC14_ClientAdapterNoServerValues ==
    /\ result.op = "validateServerEnv" =>
          /\ result.kind = "return"
          /\ result.value.values = <<>>
          /\ schemaCalls = <<>>
    /\ result.op = "createEnv" =>
          /\ \A i \in 1..Len(schemaCalls) :
                schemaCalls[i].key \notin DeclaredKeys(result.arg.server)
          /\ result.kind = "return" =>
                \A k \in DeclaredKeys(result.arg.server) :
                    ObjHas(result.value.env, k) =>
                        /\ PayloadAt(result.arg.namespace).type = "object"
                        /\ ObjHas(PayloadAt(result.arg.namespace).obj, k)
                        /\ ObjGet(result.value.env, k)
                              = ObjGet(PayloadAt(result.arg.namespace).obj, k)

\* createEnv went through the client adapter with a server group whose
\* field the raw environment holds, and the merged environment has the
\* client value only.
WitnessC14 ==
    /\ result.op = "createEnv" /\ result.kind = "return"
    /\ result.arg.skipValidation = FALSE
    /\ ObjHas(result.arg.server, K_DB)
    /\ ObjHas(result.arg.runtimeEnv.obj, K_DB)
    /\ ObjHas(result.value.env, K_PUB_A)
    /\ ~ObjHas(result.value.env, K_DB)

\* C17 as stated: createEnv in client context, going through the client
\* adapter, returns without reading window[envKey]: it never fails with
\* EnvNotInitializedError and no schema of the client group is invoked
\* before the first property access on the object it returns.
OrigC17_ChannelReadLazily ==
    result.op = "createEnv" =>
        /\ ~(result.kind = "throw" /\ result.value.type = "EnvNotInitializedError")
        /\ \A i \in 1..Len(schemaCalls) :
              schemaCalls[i].key \notin DeclaredKeys(result.arg.client)

\* ------------------------------------------------------------------------
\* getClientEnv in development mode
\* ------------------------------------------------------------------------
AsSet(o) == {o[i] : i \in 1..Len(o)}

\* The entries of a raw environment whose names carry the public prefix
PublicEntries(raw) ==
    IF raw.type = "object"
    THEN SelectSeq(raw.obj, LAMBDA en : StartsWith(en.key, NEXT_PUBLIC))
    ELSE <<>>

InClientGetClientEnv == result.op = "getClientEnv" /\ cachedIsClient = Some(TRUE)

PayloadUnavailable == PayloadAt(result.arg.namespace).type # "object"

PayloadHasEntries ==
    /\ PayloadAt(result.arg.namespace).type = "object"
    /\ Len(PayloadAt(result.arg.namespace).obj) > 0

\* What development mode resolves from: the payload when it is a plain
\* object with entries, else the public entries of the raw environment
DevSourced ==
    IF PayloadHasEntries THEN PayloadAt(result.arg.namespace).obj
    ELSE PublicEntries(result.arg.runtimeEnv)

\* What is resolved first, in every mode: the payload when it is a plain
\* object, else the public entries of the raw environment
FirstSourced ==
    IF PayloadUnavailable THEN PublicEntries(result.arg.runtimeEnv)
    ELSE PayloadAt(result.arg.namespace).obj

ValidationAsked == ~result.arg.skipValidation /\ Len(result.arg.schema) > 0

\* Validation is asked for and has something to validate
Validates(sourced) == ValidationAsked /\ Len(sourced) > 0

ValidationFails(sourced) ==
    Validates(sourced) /\ InvalidKeys(result.arg.schema, sourced) # {}

\* C15 as stated: in client context in development mode getClientEnv
\* never raises; with the payload unavailable it returns the public entries
\* of the raw environment; when validation of the sourced values fails it
\* returns them unvalidated; in production the same failure is raised.
OrigC15_DevReturnsPublicEntries ==
    InClientGetClientEnv =>
        /\ nodeEnv = "development" =>
              /\ result.kind = "return"
              /\ PayloadUnavailable =>
                    AsSet(result.value.values) = AsSet(PublicEntries(result.arg.runtimeEnv))
              /\ ValidationFails(DevSourced) =>
                    AsSet(result.value.values) = AsSet(DevSourced)
        /\ (nodeEnv = "production" /\ ValidationFails(DevSourced)) =>
              (result.kind = "throw" /\ result.value.type = "EnvValidationError")

\* C15, amended: in development mode getClientEnv never raises.  With an
\* empty schema or validation skipped it returns what it resolved first
\* (the payload when that is a plain object, else the public entries of the
\* raw environment).  Otherwise it resolves from the payload when that has
\* entries, else from the public entries of the raw environment, and
\* returns those values as they are when there are none or validation
\* fails, and the validated values over the schema's names when validation
\* passes.  In production a validation failure of a payload with entries
\* is raised as EnvValidationError.
ThmC15_DevNeverRaises ==
    InClientGetClientEnv =>
        /\ nodeEnv = "development" =>
              /\ result.kind = "return"
              /\ ~ValidationAsked =>
                    AsSet(result.value.values) = AsSet(FirstSourced)
              /\ (ValidationAsked
                     /\ (Len(DevSourced) = 0 \/ ValidationFails(DevSourced))) =>
                    AsSet(result.value.values) = AsSet(DevSourced)
              /\ (Validates(DevSourced) /\ ~ValidationFails(DevSourced)) =>
                    /\ DeclaredKeys(result.value.values) = DeclaredKeys(result.arg.schema)
                    /\ \A k \in DeclaredKeys(result.arg.schema) :
                          ObjGet(result.value.values, k) = Lookup(DevSourced, k)
        /\ (nodeEnv = "production" /\ PayloadHasEntries
               /\ ValidationFails(PayloadAt(result.arg.namespace).obj)) =>
              (result.kind = "throw" /\ result.value.type = "EnvValidationError")

\* Development mode, no payload: the public entries of the raw environment
\* failed validation and came back unvalidated.
WitnessC15 ==
    /\ InClientGetClientEnv /\ nodeEnv = "development"
    /\ PayloadUnavailable
    /\ ValidationFails(DevSourced)
    /\ result.kind = "return"
    /\ Len(result.value.values) > 0
    /\ AsSet(result.value.values) = AsSet(PublicEntries(result.arg.runtimeEnv))

\* ------------------------------------------------------------------------
\* The client env proxy of createClientEnvProxy
\* ------------------------------------------------------------------------
MaxGlobalReads == 2

ClientProxyCalls ==
    [schema : {<<>>, <<Entry(K_PUB_A, "min1")>>},
     runtimeEnv : {JsUndefined, JsObject(<<Entry(K_PUB_A, V_PUBLIC)>>)},
     skipValidation : BOOLEAN, namespace : {UNDEFINED}]

ClientProxyProps == {K_PUB_A, K_DB, K_CTOR}

\* What the page may come to hold at the channel key
ClientProxyPayloads ==
    {EmptyMap}
    \cup {[k \in {ChannelKey(UNDEFINED)} |-> Assigned(p)] :
            p \in {JsObject(<<Entry(K_PUB_A, V_PUBLIC)>>),
                   JsObject(<<Entry(K_DB, V_SECRET2), Entry(K_PUB_A, <<>>)>>)}}

clientProxyFrame == <<limiterVars, guardVars, globalVars, cachedRuntime, cachedIsServer,
                      windowEnv, nodeEnv, proxyArgs, rendered, retryVars>>

\* createClientEnvProxy(schema, runtimeEnv, skipValidation, namespace)
CreateClientEnvProxy(call) ==
    /\ IsNone(proxyArgs)
    /\ proxyArgs' = Some(call)
    /\ cachedEnv' = None
    /\ cachedKeys' = None
    /\ cachedOwner' = "none"
    /\ result' = Called("createClientEnvProxy", UNDEFINED, Returned(UNDEFINED))
    /\ schemaCalls' = <<>>
    /\ UNCHANGED <<limiterVars, guardVars, globalVars, detectorVars, windowEnv, nodeEnv,
                   globalReads, tamperWarned, rendered, retryVars>>

\* What a handler leaves, e being what getEnv gave it.  cachedEnv is
\* assigned the object getClientEnv returned, not a copy of it, and
\* cachedKeys a new array of its keys.
ClientProxyDone(op, prop, e, outcome) ==
    /\ ~IsNone(proxyArgs)
    /\ e.asked => globalReads < MaxGlobalReads
    /\ result' = Called(op, prop, outcome)
    /\ schemaCalls' = e.calls
    /\ cachedEnv' = IF e.asked /\ e.outcome.kind = "return"
                    THEN Some(e.outcome.value) ELSE cachedEnv
    /\ cachedKeys' = IF e.asked /\ e.outcome.kind = "return"
                     THEN Some(ObjKeys(e.outcome.value)) ELSE cachedKeys
    /\ cachedOwner' = IF e.asked /\ e.outcome.kind = "return"
                      THEN IF e.shared THEN "window" ELSE "proxy"
                      ELSE cachedOwner
    /\ tamperWarned' = IF e.asked THEN e.warned ELSE tamperWarned
    /\ globalReads' = IF e.asked /\ ReadsGlobal(IsClientValue(cachedIsClient, hasWindow),
                                               hasWindow)
                      THEN globalReads + 1 ELSE globalReads
    /\ cachedIsClient' = IF e.asked THEN Some(IsClientValue(cachedIsClient, hasWindow))
                         ELSE cachedIsClient
    /\ firstSeen' = IF e.asked
                    THEN [firstSeen EXCEPT !.isClient =
                             Remember(@, IsClientValue(cachedIsClient, hasWindow))]
                    ELSE firstSeen
    /\ UNCHANGED clientProxyFrame

\* getEnv() as a handler calls it
CallGetEnv ==
    getEnv(cachedEnv, proxyArgs[1], IsClientValue(cachedIsClient, hasWindow),
           hasWindow, windowEnv, nodeEnv)

ClientProxyGet(prop) ==
    /\ ~IsNone(proxyArgs)
    /\ ClientProxyDone("get", prop, CallGetEnv, ClientGet(CallGetEnv, prop))

ClientProxyHas(prop) ==
    /\ ~IsNone(proxyArgs)
    /\ IF ~IsNone(cachedKeys)
       THEN ClientProxyDone("has", prop, NoEnv, ClientHas(cachedKeys, NoEnv, prop))
       ELSE ClientProxyDone("has", prop, CallGetEnv, ClientHas(cachedKeys, CallGetEnv, prop))

ClientProxyOwnKeys ==
    /\ ~IsNone(proxyArgs)
    /\ IF ~IsNone(cachedKeys)
       THEN ClientProxyDone("ownKeys", UNDEFINED, NoEnv, ClientOwnKeys(cachedKeys, NoEnv))
       ELSE ClientProxyDone("ownKeys", UNDEFINED, CallGetEnv,
                            ClientOwnKeys(cachedKeys, CallGetEnv))

ClientProxyGetOwnPropertyDescriptor(prop) ==
    /\ ~IsNone(proxyArgs)
    /\ ClientProxyDone("getOwnPropertyDescriptor", prop, CallGetEnv,
                       ClientGetOwnPropertyDescriptor(CallGetEnv, prop))

\* The page assigns another object to window[envKey] or deletes it, a
\* property it left writable and configurable.  An object the proxy has
\* cached stays cached, the page holding it no longer at window[envKey].
SetWindowEnv(payload) ==
    /\ \A k \in DOMAIN windowEnv : windowEnv[k].writable /\ windowEnv[k].configurable
    /\ windowEnv' = payload
    /\ cachedOwner' = IF cachedOwner = "window" THEN "page" ELSE cachedOwner
    /\ UNCHANGED <<limiterVars, guardVars, globalVars, detectorVars, nodeEnv,
                   proxyArgs, cachedEnv, cachedKeys, globalReads, tamperWarned, rendered,
                   retryVars, schemaCalls, result>>

\* The entries the page writes into an object of its own
ClientProxyWrites == {Entry(K_PUB_A, V_CHANGED), Entry(K_DB, V_SECRET2)}

\* window[envKey][k] = v: the page sets an entry of the object it
\* assigned to window[envKey], which is not frozen.  cachedEnv is changed
\* with it when it refers to that object; cachedKeys is an array of its
\* own.
SetWindowEnvEntry(envKey, k, v) ==
    /\ envKey \in DOMAIN windowEnv
    /\ windowEnv[envKey].type = "object"
    /\ windowEnv[envKey].writable /\ windowEnv[envKey].configurable
    /\ windowEnv' = [windowEnv EXCEPT ![envKey].obj = ObjSet(@, k, v)]
    /\ cachedEnv' = IF cachedOwner = "window" /\ envKey = ChannelKey(proxyArgs[1].namespace)
                    THEN Some(ObjSet(cachedEnv[1], k, v)) ELSE cachedEnv
    /\ UNCHANGED <<limiterVars, guardVars, globalVars, detectorVars, nodeEnv,
                   proxyArgs, cachedKeys, cachedOwner, globalReads, tamperWarned, rendered,
                   retryVars, schemaCalls, result>>

\* The page sets an entry of an object it assigned to window[envKey]
\* earlier and has replaced there since, while the proxy has it cached
SetHeldEntry(k, v) ==
    /\ cachedOwner = "page"
    /\ cachedEnv' = Some(ObjSet(cachedEnv[1], k, v))
    /\ UNCHANGED <<limiterVars, guardVars, globalVars, detectorVars, windowEnv, nodeEnv,
                   proxyArgs, cachedKeys, cachedOwner, globalReads, tamperWarned, rendered,
                   retryVars, schemaCalls, result>>

\* window[envKey] = original: the page assigns the object it held at
\* window[envKey] before back to it, as the cleanup of mockWindowEnv does.
\* When the proxy has that object cached, cachedEnv is the object at
\* window[envKey] again.
RestoreWindowEnv ==
    /\ cachedOwner = "page"
    /\ \A k \in DOMAIN windowEnv : windowEnv[k].writable /\ windowEnv[k].configurable
    /\ windowEnv' = MapSet(windowEnv, ChannelKey(proxyArgs[1].namespace),
                           Assigned(JsObject(cachedEnv[1])))
    /\ cachedOwner' = "window"
    /\ UNCHANGED <<limiterVars, guardVars, globalVars, detectorVars, nodeEnv,
                   proxyArgs, cachedEnv, cachedKeys, globalReads, tamperWarned, rendered,
                   retryVars, schemaCalls, result>>

\* process.env.NODE_ENV = mode, as mockProcessEnv sets it: getClientEnv
\* reads it on every call
SetNodeEnv(mode) ==
    /\ nodeEnv' = mode
    /\ UNCHANGED <<limiterVars, guardVars, globalVars, detectorVars, windowEnv,
                   clientProxyVars, tamperWarned, rendered, retryVars, schemaCalls, result>>

\* The raw environment the proxy was given is changed by its owner
SetRuntimeEnv(e) ==
    /\ ~IsNone(proxyArgs)
    /\ proxyArgs' = Some([proxyArgs[1] EXCEPT !.runtimeEnv = e])
    /\ UNCHANGED <<limiterVars, guardVars, globalVars, detectorVars, windowEnv, nodeEnv,
                   cachedEnv, cachedKeys, cachedOwner, globalReads, tamperWarned, rendered,
                   retryVars, schemaCalls, result>>

InitClientProxy ==
    /\ IdleLimiter
    /\ IdleGuard
    /\ hasWindow \in BOOLEAN
    /\ hasProcess = TRUE
    /\ hasEdgeRuntime = FALSE
    /\ cachedRuntime = None
    /\ cachedIsServer = None
    /\ cachedIsClient = None
    /\ firstSeen = NothingSeen
    /\ windowEnv \in ClientProxyPayloads
    /\ nodeEnv \in {"production", "development"}
    /\ IdleClientProxy
    /\ schemaCalls = <<>>
    /\ result = NoCall

NextClientProxy ==
    \/ \E call \in ClientProxyCalls : CreateClientEnvProxy(call)
    \/ \E prop \in ClientProxyProps : ClientProxyGet(prop)
    \/ \E prop \in ClientProxyProps : ClientProxyHas(prop)
    \/ ClientProxyOwnKeys
    \/ \E prop \in ClientProxyProps : ClientProxyGetOwnPropertyDescriptor(prop)
    \/ \E payload \in ClientProxyPayloads : SetWindowEnv(payload)
    \/ \E w \in ClientProxyWrites : SetWindowEnvEntry(ChannelKey(UNDEFINED), w.key, w.value)
    \/ \E w \in ClientProxyWrites : SetHeldEntry(w.key, w.value)
    \/ RestoreWindowEnv
    \/ \E mode \in {"production", "development"} : SetNodeEnv(mode)
    \/ \E e \in {JsUndefined, JsObject(<<Entry(K_PUB_A, V_PUBLIC)>>)} : SetRuntimeEnv(e)

SpecClientProxy == InitClientProxy /\ [][NextClientProxy]_vars

\* C16: once getEnv has cached a resolution, every later get, has, ownKeys
\* and getOwnPropertyDescriptor returns the values and keys of that
\* resolution, whatever the page does to the global and the owner to the
\* raw environment: cachedEnv and cachedKeys stay what they are through
\* every step, cachedKeys being the keys of cachedEnv, window[envKey] is
\* not read, no field schema is invoked, and each handler answers from
\* them.
OrigC16_ResolutionCachedForLife ==
    [][~IsNone(cachedEnv) =>
          /\ cachedEnv' = cachedEnv
          /\ cachedKeys' = cachedKeys
          /\ cachedKeys = Some(ObjKeys(cachedEnv[1]))
          /\ globalReads' = globalReads
          /\ (windowEnv' = windowEnv /\ proxyArgs' = proxyArgs) =>
                /\ result'.kind = "return"
                /\ schemaCalls' = <<>>
                /\ result'.op = "get" =>
                      result'.value.returned = Lookup(cachedEnv[1], result'.arg)
                /\ result'.op = "has" =>
                      result'.value.returned = Includes(cachedKeys[1], result'.arg)
                /\ result'.op = "ownKeys" =>
                      result'.value.returned = cachedKeys[1]
                /\ result'.op = "getOwnPropertyDescriptor" =>
                      IF InObject(cachedEnv[1], result'.arg)
                      THEN /\ Len(result'.value.returned) = 2
                           /\ result'.value.returned[2].value
                                 = Lookup(cachedEnv[1], result'.arg)
                      ELSE result'.value.returned = UNDEFINED]_vars

\* ------------------------------------------------------------------------
\* getClientEnv and the integrity check
\* ------------------------------------------------------------------------
IntegrityValues ==
    {JsNull, JsEmptyText, JsText, JsObject(<<>>),
     JsObject(<<Entry(K_PUB_A, V_PUBLIC)>>), JsObject(<<Entry(K_PUB_A, <<>>)>>)}

\* The page holds nothing at the channel key, or a property with any
\* descriptor flags
IntegrityPayloads ==
    {EmptyMap}
    \cup {[k \in {ChannelKey(UNDEFINED)} |-> Property(v, w, c)] :
            v \in IntegrityValues, w \in BOOLEAN, c \in BOOLEAN}

IntegrityCalls ==
    [schema : {<<>>, <<Entry(K_PUB_A, "min1")>>},
     runtimeEnv : {JsUndefined, JsObject(<<Entry(K_PUB_A, V_PUBLIC)>>)},
     skipValidation : BOOLEAN, namespace : {UNDEFINED, NS_APP}]

CallValidateWindowEnvIntegrity(ns) ==
    /\ result.op = "none"
    /\ result' = Called("validateWindowEnvIntegrity", ChannelKey(ns),
                    Returned(validateWindowEnvIntegrity(hasWindow, windowEnv,
                                                        ChannelKey(ns))))
    /\ UNCHANGED <<limiterVars, guardVars, globalVars, detectorVars, channelVars,
                   schemaCalls>>

InitIntegrity ==
    /\ IdleLimiter
    /\ IdleGuard
    /\ hasWindow \in BOOLEAN
    /\ hasProcess = TRUE
    /\ hasEdgeRuntime = FALSE
    /\ cachedRuntime = None
    /\ cachedIsServer = None
    /\ cachedIsClient \in {None, Some(TRUE)}
    /\ firstSeen = [NothingSeen EXCEPT !.isClient = cachedIsClient]
    /\ windowEnv \in IntegrityPayloads
    /\ nodeEnv \in {"production", "development"}
    /\ IdleClientProxy
    /\ schemaCalls = <<>>
    /\ result = NoCall

NextIntegrity ==
    \/ \E call \in IntegrityCalls : CallGetClientEnv(call)
    \/ \E ns \in {UNDEFINED, NS_APP} : CallValidateWindowEnvIntegrity(ns)

SpecIntegrity == InitIntegrity /\ [][NextIntegrity]_vars

\* The window properties with the descriptor flags of every property set to
\* w and c
Redefined(wEnv, w, c) == [k \in DOMAIN wEnv |-> Property(wEnv[k], w, c)]

\* getClientEnv called again with the arguments and in the context of the
\* last call, the window properties being wEnv
SameCall(wEnv) ==
    getClientEnv(result.arg.schema, result.arg.runtimeEnv, result.arg.skipValidation,
                 result.arg.namespace, IsClientValue(cachedIsClient, hasWindow),
                 hasWindow, wEnv, nodeEnv)

SameOutcome(r) ==
    /\ r.outcome.kind = result.kind
    /\ ReturnedObject(r.outcome).value = result.value
    /\ r.calls = schemaCalls

\* C18: what getClientEnv returned or raised, and the schemas it invoked,
\* are what it returns, raises and invokes with the same schema, payload
\* value, raw environment, mode and flags under every other setting of the
\* writable and configurable flags of the global payload property.
ThmC18_TamperCheckDetectsOnly ==
    result.op = "getClientEnv" =>
        \A w \in BOOLEAN, c \in BOOLEAN : SameOutcome(SameCall(Redefined(windowEnv, w, c)))

\* In development a payload left writable was read: the values were
\* returned and the call warned.
WitnessC18 ==
    /\ result.op = "getClientEnv" /\ result.kind = "return"
    /\ hasWindow /\ nodeEnv = "development"
    /\ result.arg.namespace = UNDEFINED
    /\ ChannelKey(UNDEFINED) \in DOMAIN windowEnv
    /\ windowEnv[ChannelKey(UNDEFINED)].writable
    /\ windowEnv[ChannelKey(UNDEFINED)].type = "object"
    /\ result.value.values = <<Entry(K_PUB_A, V_PUBLIC)>>
    /\ tamperWarned
    /\ ~SameCall(Redefined(windowEnv, FALSE, FALSE)).warned

\* ------------------------------------------------------------------------
\* The injection channel end to end: the script rendered on the server,
\* run by the page and read by getClientEnv
\* ------------------------------------------------------------------------
MaxEntries == 2

CH_ESC == CodeUnit(<<"0","0","1","b">>)
CH_LONE == CodeUnit(<<"d","8","0","0">>)
V_QUOTED == <<"\"", "\\", "n", "\n", "\t", CH_SOH, CH_ESC, CH_LONE>>
NS_A1 == <<"a","-","1">>

GeneratorKeys == {K_PUB_A, K_PUB_B, K_HAS_SPACE}
V_CLOSE_TAG == <<"<","/","s","c","r","i","p","t",">">>
GeneratorValues == {V_QUOTED, V_CLOSE_TAG, NULL, UNDEFINED}
GeneratorEnvs == Objects(GeneratorKeys, GeneratorValues, MaxEntries)

\* No namespace, the empty string, and namespaces validateConfig accepts
ChannelNamespaces == {UNDEFINED, <<>>, NS_APP, NS_A1}
ValidNamespaces == {ns \in ChannelNamespaces :
                       ns # UNDEFINED /\ validateConfig(
                           [server |-> <<>>, client |-> <<>>,
                            runtimeEnv |-> JsObject(<<>>), skipValidation |-> FALSE,
                            namespace |-> ns, runtimeAdapter |-> "none"]).kind = "return"}

ChannelCalls ==
    [schema : {<<>>}, runtimeEnv : {JsUndefined}, skipValidation : {FALSE},
     namespace : ChannelNamespaces]

\* The server renders the page: generateEnvScript(envVars, namespace)
Render(envVars, ns) ==
    /\ IsNone(rendered)
    /\ rendered' = Some([envVars |-> envVars, namespace |-> ns,
                         script |-> generateEnvScript(envVars, ns)])
    /\ UNCHANGED <<limiterVars, guardVars, globalVars, detectorVars, windowEnv, nodeEnv,
                   clientProxyVars, tamperWarned, retryVars, schemaCalls, result>>

\* The page runs the script it was rendered with
RunScript ==
    /\ ~IsNone(rendered)
    /\ rendered[1].script # <<>>
    /\ hasWindow
    /\ windowEnv = EmptyMap
    /\ windowEnv' = [k \in {ScriptDefines(rendered[1].script).envKey} |->
                        Property(JsObject(ScriptDefines(rendered[1].script).payload),
                                 ScriptDefines(rendered[1].script).writable,
                                 ScriptDefines(rendered[1].script).configurable)]
    /\ UNCHANGED <<limiterVars, guardVars, globalVars, detectorVars, nodeEnv,
                   clientProxyVars, tamperWarned, rendered, retryVars, schemaCalls, result>>

CallGetClientEnvKey(adapter, ns) ==
    /\ result.op = "none"
    /\ result' = Called("getClientEnvKey", [adapter |-> adapter, namespace |-> ns],
                        ReturnedKey(Return(getClientEnvKey(adapter, ns))))
    /\ UNCHANGED <<limiterVars, guardVars, globalVars, detectorVars, channelVars,
                   schemaCalls>>

InitChannel ==
    /\ IdleLimiter
    /\ IdleGuard
    /\ hasWindow = TRUE
    /\ hasProcess = TRUE
    /\ hasEdgeRuntime = FALSE
    /\ cachedRuntime = None
    /\ cachedIsServer = None
    /\ cachedIsClient = None
    /\ firstSeen = NothingSeen
    /\ windowEnv = EmptyMap
    /\ nodeEnv \in {"production", "development"}
    /\ IdleClientProxy
    /\ schemaCalls = <<>>
    /\ result = NoCall

NextChannel ==
    \/ \E envVars \in GeneratorEnvs, ns \in ChannelNamespaces : Render(envVars, ns)
    \/ RunScript
    \/ \E call \in ChannelCalls : CallGetClientEnv(call)
    \/ \E adapter \in {"server", "client", "edge"}, ns \in ChannelNamespaces :
          CallGetClientEnvKey(adapter, ns)

SpecChannel == InitChannel /\ [][NextChannel]_vars

\* The page ran the rendered script
ScriptRan ==
    /\ ~IsNone(rendered)
    /\ windowEnv # EmptyMap

\* C19: for every namespace, and for none, the three adapters'
\* getClientEnvKey, the property the rendered script defines and the key
\* getClientEnv reads are one key; the keys of two different valid
\* namespaces differ and differ from the key of no namespace; and a read
\* under a namespace other than the one the script was rendered with, both
\* valid or none, gives what it gives on a page without payload.
ThmC19_OneKeyPerNamespace ==
    /\ \A ns \in ChannelNamespaces :
          /\ ServerGetClientEnvKey(ns) = ChannelKey(ns)
          /\ ClientGetClientEnvKey(ns) = ChannelKey(ns)
          /\ EdgeGetClientEnvKey(ns) = ChannelKey(ns)
    /\ result.op = "getClientEnvKey" =>
          result.value.key = ChannelKey(result.arg.namespace)
    /\ (~IsNone(rendered) /\ rendered[1].script # <<>>) =>
          ScriptDefines(rendered[1].script).envKey = ChannelKey(rendered[1].namespace)
    /\ \A a \in ValidNamespaces :
          /\ ChannelKey(a) # ChannelKey(UNDEFINED)
          /\ \A b \in ValidNamespaces \ {a} : ChannelKey(a) # ChannelKey(b)
    /\ (ScriptRan /\ result.op = "getClientEnv"
           /\ result.arg.namespace # rendered[1].namespace
           /\ {result.arg.namespace, rendered[1].namespace}
                 \subseteq ValidNamespaces \cup {UNDEFINED}) =>
          /\ result.kind = SameCall(EmptyMap).outcome.kind
          /\ result.value = ReturnedObject(SameCall(EmptyMap).outcome).value

\* A payload rendered under one namespace and read under another: the read
\* found nothing, while the adapter gave the key the script defined.
WitnessC19 ==
    /\ ScriptRan
    /\ rendered[1].namespace = NS_APP
    /\ ChannelKey(NS_APP) \in DOMAIN windowEnv
    /\ Len(windowEnv[ChannelKey(NS_APP)].obj) > 0
    /\ result.op = "getClientEnv"
    /\ result.arg.namespace = NS_A1
    /\ result.kind = "return" /\ result.value.values = <<>>

\* The entries of envVars whose key the sanitizer accepts
CleanEntries(envVars) == {e \in AsSet(envVars) : IsCleanName(e.key)}

\* C20 as stated: the payload of the script holds exactly the input entries
\* whose key passes the sanitizer, values unchanged; the script is the
\* empty string when no key survives, and otherwise defines the payload,
\* frozen, as a non-writable, non-configurable property at the channel key.
OrigC20_PayloadIsCleanEntries ==
    ~IsNone(rendered) =>
        /\ (rendered[1].script = <<>>) = (CleanEntries(rendered[1].envVars) = {})
        /\ rendered[1].script # <<>> =>
              /\ AsSet(ScriptDefines(rendered[1].script).payload)
                    = CleanEntries(rendered[1].envVars)
              /\ ScriptDefines(rendered[1].script).envKey
                    = ChannelKey(rendered[1].namespace)
              /\ ScriptDefines(rendered[1].script).frozen
              /\ ~ScriptDefines(rendered[1].script).writable
              /\ ~ScriptDefines(rendered[1].script).configurable

\* C20: generateEnvScript returns for every input; the script is the empty
\* string exactly when no key passes the sanitizer; otherwise it defines,
\* frozen, as a non-writable, non-configurable property at the channel key,
\* the payload holding exactly the input entries whose key passes the
\* sanitizer and whose value is not undefined, string and null values
\* unchanged and in the order of the input.
ThmC20_PayloadIsDefinedCleanEntries ==
    ~IsNone(rendered) =>
        /\ (rendered[1].script = <<>>) = (CleanEntries(rendered[1].envVars) = {})
        /\ rendered[1].script # <<>> =>
              /\ ScriptDefines(rendered[1].script).payload
                    = SelectSeq(rendered[1].envVars,
                                LAMBDA e : IsCleanName(e.key) /\ e.value # UNDEFINED)
              /\ ScriptDefines(rendered[1].script).envKey
                    = ChannelKey(rendered[1].namespace)
              /\ ScriptDefines(rendered[1].script).frozen
              /\ ~ScriptDefines(rendered[1].script).writable
              /\ ~ScriptDefines(rendered[1].script).configurable

\* A script whose payload dropped a refused key and kept a value with a
\* quote, a backslash, a line feed, a tab, two control characters and a
\* lone surrogate
WitnessC20 ==
    /\ ~IsNone(rendered)
    /\ rendered[1].envVars = <<Entry(K_HAS_SPACE, NULL), Entry(K_PUB_A, V_QUOTED)>>
    /\ rendered[1].script # <<>>
    /\ ScriptDefines(rendered[1].script).payload = <<Entry(K_PUB_A, V_QUOTED)>>

\* The text holds the characters of sub in a row
Contains(text, sub) ==
    \E i \in 0..(Len(text) - Len(sub)) :
        \A j \in 1..Len(sub) : text[i + j] = sub[j]

\* </script, which ends the script element the text is embedded in
S_END_TAG == <<"<","/","s","c","r","i","p","t">>

\* C21 as stated: whatever the string values, the script text holds no
\* sequence that ends the enclosing script element, and no value leaves the
\* payload literal: the literal read back holds the strings given.
OrigC21_ScriptTextEscaped ==
    (~IsNone(rendered) /\ rendered[1].script # <<>>) =>
        /\ ~Contains(rendered[1].script, S_END_TAG)
        /\ \A e \in AsSet(ScriptDefines(rendered[1].script).payload) :
              e \in AsSet(rendered[1].envVars)

\* ------------------------------------------------------------------------
\* validateConfig, alone and as the first step of createEnv
\* ------------------------------------------------------------------------
NS_TAB_END == <<"a"," ">>
NS_MIXED == <<"A","_","-","9">>

ConfigNamespaces == {UNDEFINED, NULL, NON_STRING, <<>>, NS_BLANK, NS_TAB_END, NS_APP,
                     NS_MIXED, <<"$">>}
ConfigRawEnvs == {JsUndefined, JsNull, JsText, JsArray, JsObject(<<>>),
                  JsObject(<<Entry(K_PUB_A, V_PUBLIC)>>)}
ConfigClientGroups == {<<>>, <<Entry(K_API, "min1")>>}

\* The configurations given in full, and those that leave properties out
FullConfigs ==
    [server : {<<Entry(K_DB, "min1")>>}, client : ConfigClientGroups,
     runtimeEnv : ConfigRawEnvs, skipValidation : BOOLEAN,
     namespace : ConfigNamespaces, runtimeAdapter : {"none"}]
PartialConfigs ==
    [runtimeEnv : ConfigRawEnvs, namespace : ConfigNamespaces, runtimeAdapter : {"none"}]
    \cup [client : ConfigClientGroups, runtimeEnv : ConfigRawEnvs,
          runtimeAdapter : {"none"}]
    \cup [server : {<<Entry(K_DB, "min1")>>}, skipValidation : {TRUE},
          runtimeAdapter : {"none"}]

CallValidateConfig(config) ==
    /\ result.op = "none"
    /\ result' = Called("validateConfig", config, validateConfig(config))
    /\ UNCHANGED <<limiterVars, guardVars, globalVars, detectorVars, channelVars,
                   schemaCalls>>

InitConfig ==
    /\ IdleLimiter
    /\ IdleGuard
    /\ hasWindow = FALSE /\ hasProcess = TRUE /\ hasEdgeRuntime = FALSE
    /\ cachedRuntime = None
    /\ cachedIsServer = None
    /\ cachedIsClient = None
    /\ firstSeen = NothingSeen
    /\ IdleChannel
    /\ schemaCalls = <<>>
    /\ result = NoCall

NextConfig ==
    \/ \E config \in FullConfigs \cup PartialConfigs : CallValidateConfig(config)
    \/ \E config \in FullConfigs \cup PartialConfigs : CallCreateEnv(config)

SpecConfig == InitConfig /\ [][NextConfig]_vars

\* The namespace is provided and is not a non-empty string of letters,
\* digits, underscores and hyphens
BadNamespace(config) ==
    /\ "namespace" \in DOMAIN config
    /\ config.namespace # UNDEFINED
    /\ \/ config.namespace \in {NULL, NON_STRING}
       \/ config.namespace = <<>>
       \/ \E i \in DOMAIN config.namespace : ~IsNameChar(config.namespace[i])

\* runtimeEnv is missing, null or not an object
BadRuntimeEnv(config) ==
    \/ "runtimeEnv" \notin DOMAIN config
    \/ config.runtimeEnv.type \in {"undefined", "null", "string"}

\* C22: validateConfig raises exactly when the namespace is provided and is
\* not a non-empty string matching ^[a-zA-Z0-9_-]+$, or runtimeEnv is
\* missing, null or not an object; otherwise it returns the configuration
\* with server and client defaulting to empty groups, skipValidation to
\* false and namespace to undefined; and createEnv raises that error, with
\* no schema invoked and before the client names are tested, for every
\* configuration validateConfig refuses.
ThmC22_ValidateConfigRaisesExactly ==
    /\ result.op = "validateConfig" =>
          /\ (result.kind = "throw") = (BadNamespace(result.arg) \/ BadRuntimeEnv(result.arg))
          /\ result.kind = "return" =>
                /\ result.value.server
                      = (IF "server" \in DOMAIN result.arg THEN result.arg.server ELSE <<>>)
                /\ result.value.client
                      = (IF "client" \in DOMAIN result.arg THEN result.arg.client ELSE <<>>)
                /\ result.value.skipValidation
                      = ("skipValidation" \in DOMAIN result.arg /\ result.arg.skipValidation)
                /\ result.value.namespace
                      = (IF "namespace" \in DOMAIN result.arg THEN result.arg.namespace
                         ELSE UNDEFINED)
                /\ result.value.runtimeEnv = result.arg.runtimeEnv.obj
    /\ (result.op = "createEnv"
           /\ (BadNamespace(result.arg) \/ BadRuntimeEnv(result.arg))) =>
          /\ result.kind = "throw"
          /\ result.value.type \in {"Error", "TypeError"}
          /\ result.value = validateConfig(result.arg).value
          /\ schemaCalls = <<>>

\* createEnv refused a namespace with a blank at its end although a client
\* name lacks the prefix: the error is validateConfig's.
WitnessC22 ==
    /\ result.op = "createEnv"
    /\ "namespace" \in DOMAIN result.arg /\ result.arg.namespace = NS_TAB_END
    /\ "client" \in DOMAIN result.arg /\ result.arg.client = <<Entry(K_API, "min1")>>
    /\ result.kind = "throw" /\ result.value.type = "Error"

\* ------------------------------------------------------------------------
\* Error boundary
\* ------------------------------------------------------------------------
\* A property of an options object is "absent" when left out, and
\* otherwise holds "undefined", "true", "false", "function" (a handler that
\* returns) or "throws" (a handler that throws HandlerError).
\* { ...DEFAULT_CONFIG, ...config }: an own property of config, even an
\* undefined one, replaces the default
SpreadOver(default, given) == IF given = "absent" THEN default ELSE given

IsSet(v) == v \in {"true", "function", "throws"}

\* What a handler that throws throws
HandlerError == PlainError(<<"handler failed">>)

\* DEFAULT_CONFIG, node being process.env.NODE_ENV when the module loaded
DEFAULT_CONFIG(node) ==
    [onValidationError |-> "undefined", onSecurityError |-> "undefined",
     logErrors |-> IF node = "development" THEN "true" ELSE "false",
     throwAfterHandle |-> "true"]

FinalConfig(config, node) ==
    [f \in DOMAIN config |-> SpreadOver(DEFAULT_CONFIG(node)[f], config[f])]

\* What the wrapper settles with, the handlers it invoked and the lines
\* it wrote to console.error
Settled(outcome, handled, logged) ==
    [kind |-> outcome.kind,
     value |-> [settled |-> outcome.value, handled |-> handled, logged |-> logged]]

\* Variant: the error is rethrown whatever throwAfterHandle says.
Handle_AlwaysRethrows(final, error, handlerName, prefix) ==
    Settled(IF final[handlerName] = "throws" THEN Throw(HandlerError) ELSE Throw(error),
            IF IsSet(final[handlerName])
            THEN <<[handler |-> handlerName, error |-> error]>> ELSE <<>>,
            IF ~IsSet(final[handlerName]) /\ IsSet(final.logErrors)
            THEN <<[text |-> prefix, message |-> error.message]>> ELSE <<>>)

\* One branch of the catch block: handler, else log, then rethrow or
\* undefined.  The handler is called inside the catch block with nothing
\* around it: what it throws leaves the wrapper.
Handle(final, error, handlerName, prefix) ==
    Settled(IF final[handlerName] = "throws" THEN Throw(HandlerError)
            ELSE IF IsSet(final.throwAfterHandle) THEN Throw(error)
            ELSE Returned(UNDEFINED),
            IF IsSet(final[handlerName])
            THEN <<[handler |-> handlerName, error |-> error]>> ELSE <<>>,
            IF ~IsSet(final[handlerName]) /\ IsSet(final.logErrors)
            THEN <<[text |-> prefix, message |-> error.message]>> ELSE <<>>)

\* The function withErrorBoundary(fn, config) returns, called once; fn is
\* what the wrapped function does when called, a value it returns being
\* recorded under the field returned
withErrorBoundary(fn, config, node) ==
    IF fn.kind = "return" THEN Settled(fn, <<>>, <<>>)
    ELSE IF fn.value.type = "EnvValidationError"
    THEN Handle(FinalConfig(config, node), fn.value, "onValidationError",
                <<"Environment validation error:">>)
    ELSE IF fn.value.type = "EnvSecurityError"
    THEN Handle(FinalConfig(config, node), fn.value, "onSecurityError",
                <<"Environment security error:">>)
    ELSE Settled(fn, <<>>, <<>>)

V_DONE == <<"d","o","n","e">>

\* What a wrapped function may do
BoundaryFns ==
    {Returned(UNDEFINED), Returned(V_DONE),
     Throw(EnvValidationError(<<>>)), Throw(EnvSecurityError(K_DB)),
     Throw(EnvClientPrefixError(K_API)), Throw(EnvNotInitializedError),
     Throw(PlainError(<<"Unknown error">>)), Throw(TypeError(<<"not a function">>))}

BoundaryConfigs ==
    [onValidationError : {"absent", "function", "throws"},
     onSecurityError : {"absent", "function", "throws"},
     logErrors : {"absent", "undefined", "true", "false"},
     throwAfterHandle : {"absent", "undefined", "true", "false"}]

CallWrapped(fn, config) ==
    /\ result.op = "none"
    /\ result' = [op |-> "withErrorBoundary", arg |-> [fn |-> fn, config |-> config]]
                    @@ withErrorBoundary(fn, config, nodeEnv)
    /\ UNCHANGED <<limiterVars, guardVars, globalVars, detectorVars, channelVars,
                   schemaCalls>>

InitBoundary ==
    /\ IdleLimiter
    /\ IdleGuard
    /\ hasWindow = FALSE /\ hasProcess = TRUE /\ hasEdgeRuntime = FALSE
    /\ IdleDetector
    /\ windowEnv = EmptyMap
    /\ nodeEnv \in {"production", "development"}
    /\ IdleClientProxy
    /\ tamperWarned = FALSE
    /\ rendered = None
    /\ IdleRetry
    /\ schemaCalls = <<>>
    /\ result = NoCall

NextBoundary ==
    \E fn \in BoundaryFns, config \in BoundaryConfigs : CallWrapped(fn, config)

SpecBoundary == InitBoundary /\ [][NextBoundary]_vars

\* The handler configured for the class of the error the function threw
MatchingHandler(call) ==
    IF call.fn.kind # "throw" THEN "absent"
    ELSE IF call.fn.value.type = "EnvValidationError" THEN call.config.onValidationError
    ELSE IF call.fn.value.type = "EnvSecurityError" THEN call.config.onSecurityError
    ELSE "absent"

IsBoundaryError(fn) ==
    fn.kind = "throw" /\ fn.value.type \in {"EnvValidationError", "EnvSecurityError"}

\* C23 as stated: when the wrapped function throws EnvValidationError or
\* EnvSecurityError, the matching handler, when configured, is invoked
\* exactly once; the error is rethrown exactly when throwAfterHandle is
\* true or left out, and the wrapper returns undefined otherwise.  Any
\* other error is rethrown unchanged with no handler invoked, and the
\* result of a function that does not throw is returned.
OrigC23_HandledThenRethrownOrUndefined ==
    result.op = "withErrorBoundary" =>
        /\ IsBoundaryError(result.arg.fn) =>
              /\ IsSet(MatchingHandler(result.arg)) => Len(result.value.handled) = 1
              /\ ~IsSet(MatchingHandler(result.arg)) => result.value.handled = <<>>
              /\ (result.kind = "throw")
                    = (result.arg.config.throwAfterHandle \in {"absent", "true"})
              /\ result.kind = "throw" => result.value.settled = result.arg.fn.value
              /\ result.kind = "return" => result.value.settled.returned = UNDEFINED
        /\ ~IsBoundaryError(result.arg.fn) =>
              /\ result.kind = result.arg.fn.kind
              /\ result.value.settled = result.arg.fn.value
              /\ result.value.handled = <<>>

\* C23: when the wrapped function throws EnvValidationError or
\* EnvSecurityError, the matching handler, when configured, is invoked
\* exactly once with that error and the other handler is not.  When the
\* handler throws, the wrapper throws what the handler threw, whatever
\* throwAfterHandle says.  When the handler returns or none is configured,
\* the error is rethrown exactly when throwAfterHandle is true or left out,
\* and the wrapper returns undefined otherwise.  Any other error is
\* rethrown unchanged with no handler invoked, and the result of a
\* function that does not throw is returned.
ThmC23_BoundaryHandlesOnce ==
    result.op = "withErrorBoundary" =>
        /\ IsBoundaryError(result.arg.fn) =>
              /\ IsSet(MatchingHandler(result.arg)) =>
                    /\ Len(result.value.handled) = 1
                    /\ result.value.handled[1].error = result.arg.fn.value
                    /\ result.value.handled[1].handler
                          = (IF result.arg.fn.value.type = "EnvValidationError"
                             THEN "onValidationError" ELSE "onSecurityError")
              /\ ~IsSet(MatchingHandler(result.arg)) => result.value.handled = <<>>
              /\ IF MatchingHandler(result.arg) = "throws"
                 THEN /\ result.kind = "throw"
                      /\ result.value.settled = HandlerError
                 ELSE /\ (result.kind = "throw")
                            = (result.arg.config.throwAfterHandle \in {"absent", "true"})
                      /\ result.kind = "throw" =>
                            result.value.settled = result.arg.fn.value
                      /\ result.kind = "return" =>
                            result.value.settled.returned = UNDEFINED
        /\ ~IsBoundaryError(result.arg.fn) =>
              /\ result.kind = result.arg.fn.kind
              /\ result.value.settled = result.arg.fn.value
              /\ result.value.handled = <<>>
              /\ result.value.logged = <<>>

\* A security error met its handler, with a validation handler configured
\* too, and was swallowed.
WitnessC23 ==
    /\ result.op = "withErrorBoundary"
    /\ result.arg.fn.kind = "throw" /\ result.arg.fn.value.type = "EnvSecurityError"
    /\ result.arg.config.onValidationError = "function"
    /\ result.arg.config.throwAfterHandle = "false"
    /\ Len(result.value.handled) = 1
    /\ result.kind = "return"

\* ------------------------------------------------------------------------
\* Retry fallback strategy and getEnvWithFallback
\* ------------------------------------------------------------------------
MaxRetries == 3
MaxResets == 1
RetryDelays == {0, 50, 100}

\* What one call of getEnv may do
GetEnvOutcomes ==
    {Returned(<<Entry(K_PUB_A, V_PUBLIC)>>), Throw(EnvNotInitializedError),
     Throw(EnvValidationError(<<>>)), Throw(PlainError(<<"Unknown error">>))}

Pow2(n) == 2 ^ n

\* Variant: one retry more is granted.
shouldUseFallback_Inclusive(s, error) ==
    IF error.type # "EnvNotInitializedError" THEN [answer |-> FALSE, strategy |-> s]
    ELSE IF s.retryCount <= s.maxRetries
    THEN [answer |-> TRUE, strategy |-> [s EXCEPT !.retryCount = @ + 1]]
    ELSE [answer |-> FALSE, strategy |-> s]

\* RetryFallbackStrategy.shouldUseFallback: its answer and the strategy
\* after it
shouldUseFallback(s, error) ==
    IF error.type # "EnvNotInitializedError" THEN [answer |-> FALSE, strategy |-> s]
    ELSE IF s.retryCount < s.maxRetries
    THEN [answer |-> TRUE, strategy |-> [s EXCEPT !.retryCount = @ + 1]]
    ELSE [answer |-> FALSE, strategy |-> s]

\* RetryFallbackStrategy.waitForRetry: the delay of its timer
RetryWait(s) == s.retryDelay * Pow2(s.retryCount - 1)

\* getEnvWithFallback(getEnv, strategy) up to its await or its end: getEnv
\* is called and does outcome
GetEnvWithFallback(outcome) ==
    /\ fallback.pc = "call"
    /\ IF outcome.kind = "return"
       THEN /\ fallback' = [fallback EXCEPT !.pc = "done",
                                            !.attempted = Append(@, outcome)]
            /\ result' = Called("getEnvWithFallback", UNDEFINED, outcome)
            /\ UNCHANGED strategy
       ELSE /\ strategy' = shouldUseFallback(strategy, outcome.value).strategy
            /\ IF shouldUseFallback(strategy, outcome.value).answer
               THEN /\ fallback' = [fallback EXCEPT !.pc = "wait",
                                                   !.attempted = Append(@, outcome),
                                                   !.waits = Append(@, RetryWait(strategy'))]
                    /\ UNCHANGED result
               ELSE /\ fallback' = [fallback EXCEPT !.pc = "done",
                                                   !.attempted = Append(@, outcome)]
                    /\ result' = Called("getEnvWithFallback", UNDEFINED, outcome)
    /\ UNCHANGED <<limiterVars, guardVars, globalVars, detectorVars, windowEnv, nodeEnv,
                   clientProxyVars, tamperWarned, rendered, schemaCalls>>

\* The timer of waitForRetry fires and getEnvWithFallback calls itself
RetryTimerFires ==
    /\ fallback.pc = "wait"
    /\ fallback' = [fallback EXCEPT !.pc = "call"]
    /\ UNCHANGED <<limiterVars, guardVars, globalVars, detectorVars, windowEnv, nodeEnv,
                   clientProxyVars, tamperWarned, rendered, strategy, schemaCalls, result>>

\* RetryFallbackStrategy.reset(), called by the owner of the strategy
\* before, during or after the getEnvWithFallback call; fallback.resets
\* counts the calls
Reset ==
    /\ fallback.resets < MaxResets
    /\ fallback' = [fallback EXCEPT !.resets = @ + 1]
    /\ strategy' = [strategy EXCEPT !.retryCount = 0]
    /\ UNCHANGED <<limiterVars, guardVars, globalVars, detectorVars, windowEnv, nodeEnv,
                   clientProxyVars, tamperWarned, rendered, schemaCalls, result>>

\* RetryFallbackStrategy.shouldUseFallback(error), called on the strategy
\* by its owner, outside getEnvWithFallback; fallback.asked counts the
\* calls that were answered true and so used up a retry
AskShouldUseFallback(error) ==
    /\ fallback' = [fallback EXCEPT
                        !.asked = IF shouldUseFallback(strategy, error).answer
                                  THEN @ + 1 ELSE @]
    /\ strategy' = shouldUseFallback(strategy, error).strategy
    /\ UNCHANGED <<limiterVars, guardVars, globalVars, detectorVars, windowEnv, nodeEnv,
                   clientProxyVars, tamperWarned, rendered, schemaCalls, result>>

\* A fresh strategy, handed to getEnvWithFallback
InitRetry ==
    /\ IdleLimiter
    /\ IdleGuard
    /\ hasWindow = FALSE /\ hasProcess = TRUE /\ hasEdgeRuntime = FALSE
    /\ IdleDetector
    /\ windowEnv = EmptyMap
    /\ nodeEnv = "production"
    /\ proxyArgs = None /\ cachedEnv = None /\ cachedKeys = None /\ globalReads = 0
    /\ cachedOwner = "none"
    /\ tamperWarned = FALSE
    /\ rendered = None
    /\ strategy \in [maxRetries : 0..MaxRetries, retryDelay : RetryDelays,
                     retryCount : {0}]
    /\ fallback = [pc |-> "call", attempted |-> <<>>, waits |-> <<>>, resets |-> 0, asked |-> 0]
    /\ schemaCalls = <<>>
    /\ result = NoCall

\* The steps of the getEnvWithFallback call itself
RetrySteps ==
    \/ \E outcome \in GetEnvOutcomes : GetEnvWithFallback(outcome)
    \/ RetryTimerFires

NextRetry ==
    \/ \E outcome \in GetEnvOutcomes : GetEnvWithFallback(outcome)
    \/ RetryTimerFires
    \/ Reset
    \/ \E outcome \in {o \in GetEnvOutcomes : o.kind = "throw"} :
          AskShouldUseFallback(outcome.value)

\* The timers set by waitForRetry fire, and the call runs on; nothing
\* obliges the owner of the strategy to call reset or shouldUseFallback
SpecRetry == InitRetry /\ [][NextRetry]_vars /\ WF_fallback(RetrySteps)

NotInitialized(outcome) ==
    outcome.kind = "throw" /\ outcome.value.type = "EnvNotInitializedError"

\* The delays waitForRetry can set: retryDelay * 2^(retryCount - 1)
RetryWaits == {strategy.retryDelay * Pow2(k - 1) : k \in 1..strategy.maxRetries}

\* C26 as stated: a call with a fresh strategy makes at most maxRetries + 1
\* attempts, exactly that many when every attempt fails with
\* EnvNotInitializedError, and waits retryDelay * 2^(i-1) before the i-th
\* retry.
OrigC26_RetryExactlyBounded ==
    /\ Len(fallback.attempted) <= strategy.maxRetries + 1
    /\ \A i \in DOMAIN fallback.waits :
          fallback.waits[i] = strategy.retryDelay * Pow2(i - 1)
    /\ (fallback.pc = "done"
            /\ NotInitialized(fallback.attempted[Len(fallback.attempted)]))
          => Len(fallback.attempted) = strategy.maxRetries + 1

\* What holds of a getEnvWithFallback call at every moment
RetryBounded ==
    /\ strategy.retryCount <= strategy.maxRetries
    /\ Len(fallback.attempted) <= (fallback.resets + 1) * strategy.maxRetries + 1
    /\ \A i \in DOMAIN fallback.waits :
          /\ fallback.waits[i] \in RetryWaits
          /\ NotInitialized(fallback.attempted[i])
    /\ fallback.pc = "done" =>
          /\ result.op = "getEnvWithFallback"
          /\ result.kind = fallback.attempted[Len(fallback.attempted)].kind
          /\ result.value = fallback.attempted[Len(fallback.attempted)].value
          /\ Len(fallback.waits) = Len(fallback.attempted) - 1
          /\ (NotInitialized(fallback.attempted[Len(fallback.attempted)])
                  /\ fallback.asked = 0) =>
                Len(fallback.attempted) >= strategy.maxRetries + 1
    /\ fallback.pc # "done" =>
          /\ Len(fallback.waits) = Len(fallback.attempted)
          /\ \A i \in DOMAIN fallback.attempted : NotInitialized(fallback.attempted[i])
    /\ fallback.resets = 0 =>
          /\ Len(fallback.waits) + fallback.asked = strategy.retryCount
          /\ Len(fallback.attempted) <= strategy.maxRetries + 1
    /\ (fallback.resets = 0 /\ fallback.asked = 0) => OrigC26_RetryExactlyBounded

\* C26: getEnvWithFallback with a fresh RetryFallbackStrategy terminates
\* when reset() is called on the strategy finitely often; retryCount never
\* exceeds maxRetries; an error of any other kind than
\* EnvNotInitializedError is rethrown at once, with no wait and no retry
\* consumed; every wait is retryDelay * 2^(retryCount - 1); a call
\* interleaved with r calls of reset() makes at most
\* (r + 1) * maxRetries + 1 attempts, and at most maxRetries + 1 without a
\* reset; and when neither reset() nor shouldUseFallback() is called on the
\* strategy from outside, a call whose every attempt fails with
\* EnvNotInitializedError makes maxRetries + 1 attempts, waits
\* retryDelay * 2^(i-1) before the i-th retry and rethrows that error.
ThmC26_RetryTerminates ==
    /\ []RetryBounded
    /\ <>(fallback.pc = "done")

\* Every attempt failed with EnvNotInitializedError, the strategy was left
\* alone and the last retry was used up: four attempts, the last wait four times
\* the delay.
WitnessC26 ==
    /\ fallback.pc = "done"
    /\ fallback.resets = 0 /\ fallback.asked = 0
    /\ strategy.maxRetries = 3 /\ strategy.retryDelay = 100
    /\ Len(fallback.attempted) = 4
    /\ fallback.waits = <<100, 200, 400>>
    /\ result.kind = "throw" /\ result.value.type = "EnvNotInitializedError"

\* ------------------------------------------------------------------------
\* Guarded object: the order of the checks of a read
\* ------------------------------------------------------------------------
\* n reads recorded at time 0
Recorded(n) == [i \in 1..n |-> 0]

\* createSecureEnvProxy takes any string as namespace.  The name c read
\* through a guarded object made with the namespace a:b is recorded under
\* env-a:b:c, which is also the key of the name b:c, one the sanitizer
\* refuses, under the namespace a.
NS_ORDER == <<"a">>
NS_ORDER_OTHER == <<"a",":","b">>
K_ORDER_OTHER == <<"c">>
K_COLON == <<"b",":","c">>

\* The names read through the guarded object
OrderProps == GuardProps \cup {K_COLON}

\* The rate limiter is one object of the module, shared by every guarded
\* object: when the object of namespace ns is made, the reads of another
\* may have brought the budget of a key two or one short of exhausted, or
\* exhausted it.  Only a name that passes the sanitizer is ever recorded:
\* the names of this object that do, and the name c of the object of
\* namespace a:b.
SharedBudgets(ns) ==
    [{AccessKey(ns, p) : p \in {q \in OrderProps : IsCleanName(q)}}
         \cup {AccessKey(NS_ORDER_OTHER, K_ORDER_OTHER)} ->
        {Recorded(ValidationMaxAttempts - 2), Recorded(ValidationMaxAttempts - 1),
         Recorded(ValidationMaxAttempts)}]

InitOrder ==
    /\ namespace \in {UNDEFINED, NS_ORDER}
    /\ attempts \in SharedBudgets(namespace)
    /\ now = 0
    /\ windowMs = ValidationWindowMs
    /\ maxAttempts = ValidationMaxAttempts
    /\ cleanupInterval = TRUE
    /\ allowedLog = EmptyMap
    /\ clearedKeys = {}
    /\ \E c \in GuardConfigs : env = c.env /\ serverKeys = c.serverKeys
    /\ cachedClientKeys = NULL
    /\ guarded = TRUE
    /\ hasWindow = TRUE /\ hasProcess = TRUE /\ hasEdgeRuntime = FALSE
    /\ cachedRuntime = None
    /\ cachedIsServer = None
    /\ cachedIsClient = Some(TRUE)
    /\ firstSeen = [NothingSeen EXCEPT !.isClient = Some(TRUE)]
    /\ IdleChannel
    /\ schemaCalls = <<>>
    /\ result = NoCall

NextOrder ==
    \/ \E p \in OrderProps : ProxyGet(p)
    \/ \E p \in OrderProps : ProxyHas(p)
    \/ ProxyOwnKeys
    \/ \E p \in OrderProps : ProxyGetOwnPropertyDescriptor(p)

SpecOrder == InitOrder /\ [][NextOrder]_vars

\* The budget of the key of prop is used up
Exhausted(prop) ==
    Len(ValidAttempts(MapGet(attempts, AccessKey(namespace, prop)), now, windowMs))
        >= maxAttempts

\* C24: a guarded read of a string name runs the sanitizer, then the rate
\* limiter, then the server-key test, then the lookup.  A name the sanitizer
\* refuses raises EnvSecurityError and leaves the rate limiter as it was,
\* also when the budget of its key is used up; a read the rate limiter
\* denies raises an error that is not an EnvSecurityError, for a server key
\* too, and records nothing; a read it allows is recorded before the
\* server-key test.  Enumeration, existence checks and descriptor queries
\* return for every name and leave the rate limiter as it was.
ThmC24_ReadCheckOrder ==
    [][/\ \A p \in OrderProps :
            (result'.op = "get" /\ result'.arg = p) =>
               IF ~IsCleanName(p)
               THEN /\ result'.kind = "throw"
                    /\ result'.value.type = "EnvSecurityError"
                    /\ attempts' = attempts
               ELSE IF Exhausted(p)
               THEN /\ result'.kind = "throw"
                    /\ result'.value.type # "EnvSecurityError"
                    /\ attempts' = attempts
               ELSE /\ Len(MapGet(attempts', AccessKey(namespace, p)))
                          = Len(MapGet(attempts, AccessKey(namespace, p))) + 1
                    /\ IF p \in serverKeys
                       THEN /\ result'.kind = "throw"
                            /\ result'.value.type = "EnvSecurityError"
                       ELSE /\ result'.kind = "return"
                            /\ result'.value = Lookup(env, p)
       /\ result'.op \in {"has", "ownKeys", "getOwnPropertyDescriptor"} =>
             /\ result'.kind = "return"
             /\ attempts' = attempts]_vars

\* A name the sanitizer refuses was read while the budget of its key was
\* used up: EnvSecurityError, not the rate-limit error, and nothing
\* recorded.
WitnessC24 ==
    /\ result.op = "get"
    /\ result.arg = K_COLON /\ namespace = NS_ORDER
    /\ ~IsCleanName(result.arg)
    /\ Exhausted(result.arg)
    /\ Len(MapGet(attempts, AccessKey(namespace, result.arg))) = ValidationMaxAttempts
    /\ result.kind = "throw" /\ result.value.type = "EnvSecurityError"

\* ------------------------------------------------------------------------
\* createSecureEnvProxy: the object keeps what it was made as
\* ------------------------------------------------------------------------
\* C25: whether the object createSecureEnvProxy returns is guarded is the
\* detector's answer at construction; a read of the object, a change of the
\* globals or a resetRuntimeCache call leaves it as it was made, and only
\* the construction of a new object gives another answer.
ThmC25_GuardDecidedAtConstruction ==
    [][/\ (/\ result'.op = "createSecureEnvProxy"
           /\ <<hasWindow', hasProcess', hasEdgeRuntime'>>
                 = <<hasWindow, hasProcess, hasEdgeRuntime>>) =>
             guarded' = IsClientValue(cachedIsClient, hasWindow)
       /\ (\/ result'.op \in {"get", "resetRuntimeCache"}
           \/ <<hasWindow', hasProcess', hasEdgeRuntime'>>
                 # <<hasWindow, hasProcess, hasEdgeRuntime>>) =>
             guarded' = guarded
       /\ guarded' # guarded =>
             /\ result'.op = "createSecureEnvProxy"
             /\ guarded' = IsClientValue(cachedIsClient, hasWindow)]_vars

\* A guarded object refused a server key after window was removed and the
\* detector's memo was reset.
WitnessC25 ==
    /\ result.op = "get" /\ result.arg \in serverKeys
    /\ guarded /\ ~hasWindow /\ cachedIsClient = None
    /\ result.kind = "throw" /\ result.value.type = "EnvSecurityError"

\* ------------------------------------------------------------------------
\* createEnv: the adapter chosen and the guard
\* ------------------------------------------------------------------------
\* runtimeAdapter || createRuntimeAdapter(), for the call in result
AdapterUsed ==
    IF result.arg.runtimeAdapter # "none" THEN result.arg.runtimeAdapter
    ELSE createRuntimeAdapter(hasWindow, hasProcess, hasEdgeRuntime)

\* C27 as stated: within one createEnv call the client adapter is used
\* exactly when the object returned is guarded, and a server or edge
\* adapter exactly when it is returned unwrapped.
OrigC27_AdapterAgreesWithGuard ==
    (result.op = "createEnv" /\ result.kind = "return") =>
        (AdapterUsed = "client") = result.value.guarded

\* ------------------------------------------------------------------------
\* Execution-context detector: the three memos
\* ------------------------------------------------------------------------
\* C28 as stated: in every state reached by calls of detectRuntime, isClient
\* and isServer and changes of the globals, what isClient() answers equals
\* detectRuntime().isClient, what isServer() answers equals
\* detectRuntime().isServer, and exactly one of isClient() and isServer()
\* is true.
OrigC28_MemosAgree ==
    /\ IsClientValue(cachedIsClient, hasWindow)
          = DetectRuntimeValue(cachedRuntime, hasWindow, hasProcess, hasEdgeRuntime).isClient
    /\ IsServerValue(cachedIsServer, hasWindow)
          = DetectRuntimeValue(cachedRuntime, hasWindow, hasProcess, hasEdgeRuntime).isServer
    /\ IsClientValue(cachedIsClient, hasWindow) # IsServerValue(cachedIsServer, hasWindow)

\* ------------------------------------------------------------------------
\* Guarded objects of several namespaces over the one rate limiter
\* ------------------------------------------------------------------------
NS_GLOBAL == <<"g","l","o","b","a","l">>

\* The namespaces validateConfig lets through, and none
IsolationNamespaces ==
    {ns \in {UNDEFINED, NS_GLOBAL, NS_APP} :
        ns = UNDEFINED \/ (Len(Trim(ns)) > 0 /\ MatchesNamespacePattern(ns))}

IsolationProps == {K_PUB_A, K_DB}

\* Earlier reads left the budget of a key two or one short of exhausted
IsolationBudgets ==
    [{AccessKey(ns, p) : ns \in IsolationNamespaces, p \in IsolationProps} ->
        {Recorded(ValidationMaxAttempts - 2), Recorded(ValidationMaxAttempts - 1)}]

\* target[prop] through the guarded object createSecureEnvProxy built with
\* namespace ns
ReadThrough(ns, prop) ==
    /\ result' = Called("get", [namespace |-> ns, prop |-> prop],
                    SecureGetOutcome(env, serverKeys, ns, attempts, now, prop))
    /\ attempts' = SecureGetAttempts(ns, attempts, now, prop)
    /\ UNCHANGED limiterFrame
    /\ UNCHANGED <<guardVars, globalVars, detectorVars, channelVars, schemaCalls>>

InitIsolation ==
    /\ attempts \in IsolationBudgets
    /\ now = 0
    /\ windowMs = ValidationWindowMs
    /\ maxAttempts = ValidationMaxAttempts
    /\ cleanupInterval = TRUE
    /\ allowedLog = EmptyMap
    /\ clearedKeys = {}
    /\ env = <<Entry(K_PUB_A, V_PUBLIC)>> /\ serverKeys = {K_DB}
    /\ namespace = UNDEFINED
    /\ cachedClientKeys = NULL
    /\ guarded = TRUE
    /\ hasWindow = TRUE /\ hasProcess = TRUE /\ hasEdgeRuntime = FALSE
    /\ cachedRuntime = None
    /\ cachedIsServer = None
    /\ cachedIsClient = Some(TRUE)
    /\ firstSeen = [NothingSeen EXCEPT !.isClient = Some(TRUE)]
    /\ IdleChannel
    /\ schemaCalls = <<>>
    /\ result = NoCall

NextIsolation ==
    \E ns \in IsolationNamespaces, p \in IsolationProps : ReadThrough(ns, p)

SpecIsolation == InitIsolation /\ [][NextIsolation]_vars

\* C29 as stated: a read through a guarded object built with one namespace,
\* or with none, never changes whether a read of any name through a guarded
\* object built with another namespace, or with none, is allowed.
OrigC29_BudgetsIsolated ==
    [][\A n1, n2 \in IsolationNamespaces, p \in IsolationProps :
         (n1 # n2 /\ result'.op = "get" /\ result'.arg.namespace = n1) =>
            IsAllowedResult(attempts', AccessKey(n2, p), now, windowMs, maxAttempts)
               = IsAllowedResult(attempts, AccessKey(n2, p), now, windowMs, maxAttempts)]_vars

\* ------------------------------------------------------------------------
\* Rate limiter: the background sweep
\* ------------------------------------------------------------------------
\* The step is the interval callback
IsSweepStep == result'.op = "cleanupOldEntries" /\ now' = now /\ cleanupInterval

\* C30: a sweep changes the answer of no isAllowed call made at the time of
\* the sweep or later, nor the attempts such a call counts; right after a
\* sweep no key of the map holds an empty list and every key holds a
\* timestamp younger than the window; destroy stops the timer, after which
\* no sweep runs, and a second destroy changes nothing.
ThmC30_SweepInvisible ==
    [][/\ IsSweepStep =>
             /\ \A k \in LimiterKeys, t \in now..(MaxClock + MaxWindow) :
                   /\ ValidAttempts(MapGet(attempts', k), t, windowMs)
                         = ValidAttempts(MapGet(attempts, k), t, windowMs)
                   /\ IsAllowedResult(attempts', k, t, windowMs, maxAttempts)
                         = IsAllowedResult(attempts, k, t, windowMs, maxAttempts)
             /\ \A k \in DOMAIN attempts' :
                   /\ attempts'[k] # <<>>
                   /\ \E i \in 1..Len(attempts'[k]) : now - attempts'[k][i] < windowMs
       /\ (result'.op = "destroy" /\ now' = now) =>
             /\ ~cleanupInterval'
             /\ attempts' = attempts
       /\ ~cleanupInterval =>
             /\ ~cleanupInterval'
             /\ result.op # "cleanupOldEntries" => result'.op # "cleanupOldEntries"
             /\ result'.op \in {"destroy", "cleanupOldEntries"} => attempts' = attempts]_vars

\* A sweep dropped a key whose attempts had all grown old and kept another,
\* and the timer was then stopped.
WitnessC30 ==
    /\ result.op = "destroy"
    /\ ~cleanupInterval
    /\ \E k \in DOMAIN allowedLog \ DOMAIN attempts : k \notin clearedKeys
    /\ DOMAIN attempts # {}

====
